---- MODULE Spec2Model ----
(***************************************************************************)
(* Risk and execution engine of the paper-trading system:                  *)
(*   execution/paper.py            PaperExecutor (position ledger)         *)
(*   risk/risk_manager.py          RiskManager (equity, daily halt)        *)
(*   risk/entry_cluster_guard.py   EntryClusterGuard (per-pair throttle)   *)
(*   app/run_paper_live.py         live polling loop                       *)
(*   scripts/replay_last_week.py   replay loop                             *)
(*                                                                         *)
(* Numbers.  Prices and ATR are integers (ticks).  Money and position size *)
(* are Python floats; they are kept here on a grid of 1/FScale, stored as  *)
(* integers (value * FScale), and a product with a fraction or a quotient  *)
(* is rounded to the nearest grid point, as a float operation rounds to    *)
(* the nearest representable value.  A drawdown is kept as an exact        *)
(* fraction num/den and compared by cross-multiplication.                  *)
(***************************************************************************)
EXTENDS Integers, Sequences, FiniteSets, TLC

(* ----------------------------- configuration --------------------------- *)

\* cfg["trading"]["pairs"], in the caller-supplied order
Pairs == <<"EUR/USD", "GBP/USD">>

PairSet == {Pairs[i] : i \in 1..Len(Pairs)}

\* grid of the float quantities (money, units): 1/FScale
FScale == 100

\* cfg["risk"]["starting_equity"], in money units
starting_equity == 10000

\* cfg["risk"]["risk_per_trade"] = RptNum / RptDen
RptNum == 3

RptDen == 100

\* cfg["risk"]["daily_max_loss"] = DmlNum / DmlDen
DmlNum == 2

DmlDen == 100

\* cfg["risk"]["sl_atr_mult"], cfg["risk"]["tp_r_mult"], cfg["risk"]["time_stop_bars"]
sl_atr_mult == 2

tp_r_mult == 3

time_stop_bars == 2

\* cfg["guards"]["clustered_entries"]
cluster_enabled == TRUE

cooldown_bars == 2

max_same_side == 2

window_bars == 4

block_after_losses == 2

pause_bars_after_loss_streak == 3

\* cfg["model"]["prob_threshold"], in percent
prob_threshold == 55

\* cfg["trading"]["max_open_positions"]
max_open_positions == 2

\* cfg["filters"]["regime"]: slope_min_atr_frac = SlopeFracNum / SlopeFracDen
regime_enabled == TRUE

SlopeFracNum == 1

SlopeFracDen == 20

adx_min_trend == 18

allow_range_trades == FALSE

\* cfg["filters"]["volatility"]: vol_spike_z in tenths
vol_enabled == TRUE

atr_min == 0

atr_max == 1000000000

block_on_spike == TRUE

vol_spike_z == 25

\* cfg["guards"]["counter_trend"]
trend_guard_enabled == TRUE

req_above_for_long == TRUE

req_below_for_short == TRUE

\* candles a pair needs before the loops evaluate it, and the most the live
\* loop loads
min_candles == 250

candle_limit == 5000

(* -------------------------------- bounds ------------------------------- *)

\* trade ids handed out in one run
MaxTrades == 2

\* iterations of a loop that find new candles, in one run
MaxTicks == 2

\* polls of the live loop that find no new candle, in one run
MaxIdle == 1

\* new bars of a pair in a run of direct calls on the guard, and the longest
\* streak of admitted same-side entries the calls go on from
MaxBars == 3

MaxAdmits == 3

\* the direct calls stop invoking can_enter / on_trade_closed once a counter of the
\* guard has reached these
MaxCount == 3

MaxLosses == 3

(* ------------------------------ input sets ----------------------------- *)

\* entry prices (ticks)
EntryPrices == {100}

\* ATR readings (ticks); 0 and -1 are the unusable ones
AtrValues == {-1, 0, 3}

\* OHLC values (ticks): the stop and target levels of the entries above and
\* values strictly between (on either side of the entry price) and beyond them
BarPrices == {82, 94, 97, 100, 103, 106, 118}

Bars == {b \in [high : BarPrices, low : BarPrices, close : BarPrices] :
            b.low <= b.close /\ b.close <= b.high}

\* risk amounts handed to open_long / open_short by a direct caller (scaled)
RiskValues == {100 * FScale, 300 * FScale}

\* timestamps a direct caller passes: the entry bar, and a later bar to update_bar
OpenTsValues == {1}

BarTsValues == {2}

\* candles a pair has when the run starts, one short of what the loops need:
\* a pair is evaluated from its first new bar on
FirstBarIdx == min_candles - 1

\* equities a direct caller hands to update_equity (scaled): below, at and just
\* above the daily limit of the starting baseline, the baseline, and a gain
EquityValues == {9700 * FScale, 9800 * FScale, 9801 * FScale,
                 10000 * FScale, 10500 * FScale}

\* pnl values a direct caller hands to on_trade_closed (scaled)
PnlValues == {-100 * FScale, 0, 300 * FScale}

Sides == {"LONG", "SHORT"}

\* bars the loops see (all close at 100): flat, down through the long stop and
\* the short target, up through the long target and the short stop
LoopBars == {[high |-> 100, low |-> 100, close |-> 100],
             [high |-> 100, low |-> 82, close |-> 100],
             [high |-> 118, low |-> 100, close |-> 100]}

\* what the predictor returns with a new bar: a long signal, a short signal,
\* a long signal on a bar with ATR 0, no signal
SigLong == [p_up |-> 70, ema_diff |-> 1, ema_trend |-> 98, ema_trend_prev |-> 97,
            atr14 |-> 3, vol_z |-> 0]

SigShort == [p_up |-> 30, ema_diff |-> -1, ema_trend |-> 102, ema_trend_prev |-> 103,
             atr14 |-> 3, vol_z |-> 0]

SigNone == [p_up |-> 50, ema_diff |-> 1, ema_trend |-> 98, ema_trend_prev |-> 97,
            atr14 |-> 3, vol_z |-> 0]

SignalSet == {SigLong, SigShort, [SigLong EXCEPT !.atr14 = 0], SigNone}

\* the pairs a direct caller of the RiskManager names
RiskPairs == {Pairs[1]}

(* ------------------------------- helpers ------------------------------- *)

Abs(x) == IF x < 0 THEN -x ELSE x

\* n / d rounded to the nearest integer, ties to even (d > 0)
RoundDiv(n, d) ==
    LET q == n \div d
        r == n % d
    IN  IF 2 * r < d THEN q
        ELSE IF 2 * r > d THEN q + 1
        ELSE IF q % 2 = 0 THEN q ELSE q + 1

RECURSIVE SumSeq(_)
SumSeq(s) == IF s = <<>> THEN 0 ELSE Head(s) + SumSeq(Tail(s))

VARIABLES
    positions,          \* PaperExecutor.positions: pair -> list of PaperPosition
    equity,             \* RiskManager.equity (scaled)
    start_equity_day,   \* RiskManager.start_equity_day (scaled)
    halted,             \* RiskManager.halted
    cg,                 \* EntryClusterGuard: the six per-pair dicts
    nbars,              \* len(candles) per pair: the bar index given to the guard
    riskOf,             \* history: the risk amount of every open call, by trade id
    mode,               \* who drives: "exec", "risk", "guard" (direct calls), "live", "replay"
    pc,                 \* position in the loop body: [at, i] (i: index into Pairs)
    tick,               \* iterations started
    trades,             \* the trades table, by id
    last_day,           \* last_day of the loop (0: None)
    now,                \* timestamp of the newest candle
    today,              \* calendar day of now
    latest,             \* the newest candle of each pair
    sig,                \* the predictor's context for the newest candle of each pair
    pend,               \* side_to_open once can_enter has allowed it
    idle,               \* live polls so far that found no new candle
    track,              \* history: trade id -> the bars it was evaluated on, its exit records
    evaluated,          \* history: an entry was evaluated in the current iteration
    guardLog,           \* history of the direct calls on the guard: per pair, the
                        \* streak of admitted same-side entries and the losing
                        \* closes since a non-loss
    last                \* history: the last call, its arguments and what it returned

loopVars == <<mode, pc, tick, trades, last_day, now, today, latest, sig, pend, idle,
              evaluated>>

vars == <<positions, equity, start_equity_day, halted, cg, nbars, riskOf, last, track,
          guardLog, loopVars>>

(* ----------------------------- PaperExecutor --------------------------- *)

NoCall == [op |-> "none", pair |-> "", side |-> "", ts |-> 0,
           high |-> 0, low |-> 0, close |-> 0, price |-> 0, atr |-> 0,
           risk |-> 0, before |-> <<>>, still |-> <<>>, closed |-> <<>>,
           pos |-> <<>>, ok |-> FALSE, value |-> 0, bar_index |-> 0, reason |-> "",
           args |-> <<>>, out |-> <<>>]

\* PaperPosition(trade_id, pair, ts, side, price, units, sl, tp), bars_held = 0
PaperPosition(trade_id, pair, ts, side, price, units, sl, tp) ==
    [trade_id |-> trade_id, pair |-> pair, entry_ts |-> ts, side |-> side,
     entry_price |-> price, units |-> units, sl |-> sl, tp |-> tp,
     bars_held |-> 0]

\* sl_dist = self.sl_atr_mult * atr14
SlDist(atr14) == sl_atr_mult * atr14

\* units = risk_amount / sl_dist, a float quotient
Units(risk_amount, sl_dist) == RoundDiv(risk_amount, sl_dist)

\* the position open_long builds once sl_dist > 0
LongPosition(trade_id, pair, ts, price, atr14, risk_amount) ==
    LET sl_dist == SlDist(atr14)
        sl == price - sl_dist
        tp == price + (tp_r_mult * sl_dist)
        units == Units(risk_amount, sl_dist)
    IN  PaperPosition(trade_id, pair, ts, "LONG", price, units, sl, tp)

\* a slip: the short's stop and target laid out as the long's
ShortPositionAsLong(trade_id, pair, ts, price, atr14, risk_amount) ==
    LET sl_dist == SlDist(atr14)
        sl == price - sl_dist
        tp == price + (tp_r_mult * sl_dist)
        units == Units(risk_amount, sl_dist)
    IN  PaperPosition(trade_id, pair, ts, "SHORT", price, units, sl, tp)

\* the position open_short builds once sl_dist > 0
ShortPosition(trade_id, pair, ts, price, atr14, risk_amount) ==
    LET sl_dist == SlDist(atr14)
        sl == price + sl_dist
        tp == price - (tp_r_mult * sl_dist)
        units == Units(risk_amount, sl_dist)
    IN  PaperPosition(trade_id, pair, ts, "SHORT", price, units, sl, tp)

\* open_long / open_short: <<>> stands for None, otherwise <<pos>>
OpenResult(side, trade_id, pair, ts, price, atr14, risk_amount) ==
    IF SlDist(atr14) <= 0 THEN <<>>
    ELSE IF side = "LONG"
         THEN <<LongPosition(trade_id, pair, ts, price, atr14, risk_amount)>>
         ELSE <<ShortPosition(trade_id, pair, ts, price, atr14, risk_amount)>>

\* a slip: one list shared by all pairs, so that the position is appended to
\* each of them
LedgerAfterOpenShared(ledger, pair, res) ==
    IF res = <<>> THEN ledger
    ELSE [p \in DOMAIN ledger |-> Append(ledger[p], res[1])]

\* self.positions.setdefault(pair, []).append(pos), when a position was built
LedgerAfterOpen(ledger, pair, res) ==
    IF res = <<>> THEN ledger
    ELSE [ledger EXCEPT ![pair] = Append(@, res[1])]

\* total_open
total_open(ledger) == SumSeq([i \in 1..Len(Pairs) |-> Len(ledger[Pairs[i]])])

\* a slip: the target is tested before the stop
LevelExitTargetFirst(pos, high, low) ==
    IF pos.side = "LONG"
    THEN IF high >= pos.tp THEN [exit_price |-> pos.tp, reason |-> "TP"]
         ELSE IF low <= pos.sl THEN [exit_price |-> pos.sl, reason |-> "SL"]
         ELSE [exit_price |-> 0, reason |-> "NONE"]
    ELSE IF low <= pos.tp THEN [exit_price |-> pos.tp, reason |-> "TP"]
         ELSE IF high >= pos.sl THEN [exit_price |-> pos.sl, reason |-> "SL"]
         ELSE [exit_price |-> 0, reason |-> "NONE"]

\* a slip: the fill is the bar's extreme, not the level
LevelExitAtExtreme(pos, high, low) ==
    IF pos.side = "LONG"
    THEN IF low <= pos.sl THEN [exit_price |-> low, reason |-> "SL"]
         ELSE IF high >= pos.tp THEN [exit_price |-> high, reason |-> "TP"]
         ELSE [exit_price |-> 0, reason |-> "NONE"]
    ELSE IF high >= pos.sl THEN [exit_price |-> high, reason |-> "SL"]
         ELSE IF low <= pos.tp THEN [exit_price |-> low, reason |-> "TP"]
         ELSE [exit_price |-> 0, reason |-> "NONE"]

\* the stop / target branch of update_bar for one position (bars_held already
\* incremented): stop first, target only when the stop did not trigger
LevelExit(pos, high, low) ==
    IF pos.side = "LONG"
    THEN IF low <= pos.sl THEN [exit_price |-> pos.sl, reason |-> "SL"]
         ELSE IF high >= pos.tp THEN [exit_price |-> pos.tp, reason |-> "TP"]
         ELSE [exit_price |-> 0, reason |-> "NONE"]
    ELSE IF high >= pos.sl THEN [exit_price |-> pos.sl, reason |-> "SL"]
         ELSE IF low <= pos.tp THEN [exit_price |-> pos.tp, reason |-> "TP"]
         ELSE [exit_price |-> 0, reason |-> "NONE"]

\* a slip: the time stop compares with > instead of >=
ExitDecisionLateTimeStop(pos, high, low, close) ==
    LET lv == LevelExit(pos, high, low)
    IN  IF lv.reason = "NONE" /\ pos.bars_held > time_stop_bars
        THEN [exit_price |-> close, reason |-> "TIME"]
        ELSE lv

\* a slip: the time stop is tested for LONG positions only
ExitDecisionTimeStopLongOnly(pos, high, low, close) ==
    LET lv == LevelExit(pos, high, low)
    IN  IF lv.reason = "NONE" /\ pos.side = "LONG" /\ pos.bars_held >= time_stop_bars
        THEN [exit_price |-> close, reason |-> "TIME"]
        ELSE lv

\* the time stop: only when neither level triggered
ExitDecision(pos, high, low, close) ==
    LET lv == LevelExit(pos, high, low)
    IN  IF lv.reason = "NONE" /\ pos.bars_held >= time_stop_bars
        THEN [exit_price |-> close, reason |-> "TIME"]
        ELSE lv

\* a slip: the LONG formula used for both sides
PnlLongFormula(pos, exit_price) == (exit_price - pos.entry_price) * pos.units

\* pnl of an exit, by side
Pnl(pos, exit_price) ==
    IF pos.side = "LONG"
    THEN (exit_price - pos.entry_price) * pos.units
    ELSE (pos.entry_price - exit_price) * pos.units

\* a slip: a position that exits is also kept in the still-open list
UpdateStepKeepsClosed(acc, pos0, ts, high, low, close) ==
    LET pos == [pos0 EXCEPT !.bars_held = @ + 1]
        ex == ExitDecision(pos, high, low, close)
    IN  IF ex.reason = "NONE"
        THEN [acc EXCEPT !.still = Append(@, pos)]
        ELSE [still |-> Append(acc.still, pos),
              closed |-> Append(acc.closed,
                            [pos |-> pos, ts |-> ts, exit_price |-> ex.exit_price,
                             pnl |-> Pnl(pos, ex.exit_price), reason |-> ex.reason])]

\* a slip: a position that stays open has its stop moved to the entry price
UpdateStepMovesStop(acc, pos0, ts, high, low, close) ==
    LET pos == [pos0 EXCEPT !.bars_held = @ + 1]
        ex == ExitDecision(pos, high, low, close)
    IN  IF ex.reason = "NONE"
        THEN [acc EXCEPT !.still = Append(@, [pos EXCEPT !.sl = pos.entry_price])]
        ELSE [acc EXCEPT !.closed =
                 Append(@, [pos |-> pos, ts |-> ts, exit_price |-> ex.exit_price,
                            pnl |-> Pnl(pos, ex.exit_price), reason |-> ex.reason])]

\* one iteration of the for loop of update_bar: acc = [still, closed]
UpdateStep(acc, pos0, ts, high, low, close) ==
    LET pos == [pos0 EXCEPT !.bars_held = @ + 1]
        ex == ExitDecision(pos, high, low, close)
    IN  IF ex.reason = "NONE"
        THEN [acc EXCEPT !.still = Append(@, pos)]
        ELSE [acc EXCEPT !.closed =
                 Append(@, [pos |-> pos, ts |-> ts, exit_price |-> ex.exit_price,
                            pnl |-> Pnl(pos, ex.exit_price), reason |-> ex.reason])]

RECURSIVE UpdateLoop(_, _, _, _, _, _)
UpdateLoop(acc, ps, ts, high, low, close) ==
    IF ps = <<>> THEN acc
    ELSE UpdateLoop(UpdateStep(acc, Head(ps), ts, high, low, close),
                    Tail(ps), ts, high, low, close)

\* a slip: the ledger list is not replaced by the still-open list, so exited
\* positions stay in it
UpdateBarResultLedgerKept(ps, ts, high, low, close) ==
    [still |-> [i \in 1..Len(ps) |-> [ps[i] EXCEPT !.bars_held = @ + 1]],
     closed |-> UpdateLoop([still |-> <<>>, closed |-> <<>>], ps, ts, high, low,
                           close).closed]

\* update_bar(pair, ts, high, low, close) on the list of that pair
UpdateBarResult(ps, ts, high, low, close) ==
    UpdateLoop([still |-> <<>>, closed |-> <<>>], ps, ts, high, low, close)

(* ------------------------- filters and signal engine ------------------- *)

\* a float argument as the caller passes it: a number, NaN, or None
Num(v) == [kind |-> "num", v |-> v]

NaN == [kind |-> "nan", v |-> 0]

None == [kind |-> "none", v |-> 0]

\* _safe_float(x, 0.0): None and NaN become 0
SafeFloat(x) == IF x.kind = "num" THEN x.v ELSE 0

\* a comparison of a raw float with a number: false on NaN
RawGeq(x, n) == x.kind = "num" /\ x.v >= n

RawGt(x, n) == x.kind = "num" /\ x.v > n

RawLt(x, n) == x.kind = "num" /\ x.v < n

\* the cfg dict of the run: the parts the filters and guards are built from
Cfg ==
    [filters |->
        [regime |-> [enabled |-> regime_enabled, slope_num |-> SlopeFracNum,
                     slope_den |-> SlopeFracDen, adx_min_trend |-> adx_min_trend,
                     allow_range_trades |-> allow_range_trades],
         volatility |-> [enabled |-> vol_enabled, atr_min |-> atr_min,
                         atr_max |-> atr_max, block_on_spike |-> block_on_spike,
                         vol_spike_z |-> vol_spike_z]],
     guards |->
        [counter_trend |-> [enabled |-> trend_guard_enabled,
                            req_above_for_long |-> req_above_for_long,
                            req_below_for_short |-> req_below_for_short]]]

\* a slip: atr is used as given, without the lower clamp of 1e-9
RegimeDecideNoClamp(cfg, price, ema_trend, ema_trend_prev, atr, adx, ema_diff) ==
    IF ~cfg.enabled
    THEN LET d == SafeFloat(ema_diff)
         IN  [regime |-> "none", allow_long |-> (d > 0), allow_short |-> (d < 0)]
    ELSE LET p == SafeFloat(price)
             t == SafeFloat(ema_trend)
             a == SafeFloat(atr)
             tp == IF ema_trend_prev.kind = "none" THEN t ELSE SafeFloat(ema_trend_prev)
             slope == t - tp
             slope_ok == Abs(slope) * cfg.slope_den >= cfg.slope_num * a
             adx_ok == IF adx.kind # "none" THEN SafeFloat(adx) >= cfg.adx_min_trend
                       ELSE TRUE
             is_trend == slope_ok /\ adx_ok
             regime == IF is_trend THEN "trend" ELSE "range"
             direction == IF ema_diff.kind # "none" THEN SafeFloat(ema_diff) ELSE p - t
         IN  IF regime = "range" /\ ~cfg.allow_range_trades
             THEN [regime |-> "range", allow_long |-> FALSE, allow_short |-> FALSE]
             ELSE [regime |-> regime, allow_long |-> (direction > 0),
                   allow_short |-> (direction < 0)]

\* RegimeFilter(cfg).decide: [regime, allow_long, allow_short]; atr is clamped
\* from below by 1e-9, which no nonzero tick-valued slope is under
RegimeDecide(cfg, price, ema_trend, ema_trend_prev, atr, adx, ema_diff) ==
    IF ~cfg.enabled
    THEN LET d == SafeFloat(ema_diff)
         IN  [regime |-> "none", allow_long |-> (d > 0), allow_short |-> (d < 0)]
    ELSE LET p == SafeFloat(price)
             t == SafeFloat(ema_trend)
             a == SafeFloat(atr)
             tp == IF ema_trend_prev.kind = "none" THEN t ELSE SafeFloat(ema_trend_prev)
             slope == t - tp
             slope_ok == IF a > 0
                         THEN Abs(slope) * cfg.slope_den >= cfg.slope_num * a
                         ELSE slope # 0
             adx_ok == IF adx.kind # "none" THEN SafeFloat(adx) >= cfg.adx_min_trend
                       ELSE TRUE
             is_trend == slope_ok /\ adx_ok
             regime == IF is_trend THEN "trend" ELSE "range"
             direction == IF ema_diff.kind # "none" THEN SafeFloat(ema_diff) ELSE p - t
         IN  IF regime = "range" /\ ~cfg.allow_range_trades
             THEN [regime |-> "range", allow_long |-> FALSE, allow_short |-> FALSE]
             ELSE [regime |-> regime, allow_long |-> (direction > 0),
                   allow_short |-> (direction < 0)]

\* a slip: the spike test with > for >=
VolDecideStrictSpike(cfg, atr, vol_z) ==
    IF ~cfg.enabled THEN TRUE
    ELSE LET a == SafeFloat(atr)
         IN  IF a < cfg.atr_min THEN FALSE
             ELSE IF a > cfg.atr_max THEN FALSE
             ELSE IF /\ cfg.block_on_spike /\ vol_z.kind # "none"
                     /\ SafeFloat(vol_z) > cfg.vol_spike_z
             THEN FALSE
             ELSE TRUE

\* VolatilityFilter(cfg).decide: allow (vol_z in tenths)
VolDecide(cfg, atr, vol_z) ==
    IF ~cfg.enabled THEN TRUE
    ELSE LET a == SafeFloat(atr)
         IN  IF a < cfg.atr_min THEN FALSE
             ELSE IF a > cfg.atr_max THEN FALSE
             ELSE IF /\ cfg.block_on_spike /\ vol_z.kind # "none"
                     /\ SafeFloat(vol_z) >= cfg.vol_spike_z
             THEN FALSE
             ELSE TRUE

\* a slip: strict comparisons, so that a price on the baseline passes
TrendDecideStrict(cfg, price, ema_trend) ==
    IF ~cfg.enabled THEN [allow_long |-> TRUE, allow_short |-> TRUE]
    ELSE LET p == SafeFloat(price)
             t == SafeFloat(ema_trend)
         IN  [allow_long |-> ~(cfg.req_above_for_long /\ p < t),
              allow_short |-> ~(cfg.req_below_for_short /\ p > t)]

\* TrendGuard(cfg).decide: [allow_long, allow_short]
TrendDecide(cfg, price, ema_trend) ==
    IF ~cfg.enabled THEN [allow_long |-> TRUE, allow_short |-> TRUE]
    ELSE LET p == SafeFloat(price)
             t == SafeFloat(ema_trend)
         IN  [allow_long |-> ~(cfg.req_above_for_long /\ p <= t),
              allow_short |-> ~(cfg.req_below_for_short /\ p >= t)]

\* should_open_long_v2 (p_up and prob_threshold in percent)
should_open_long_v2(p_up, ema_diff, threshold, price, ema_trend, ema_trend_prev, atr, adx, vol_z, cfg) ==
    /\ RawGeq(p_up, threshold) /\ RawGt(ema_diff, 0)
    /\ RegimeDecide(cfg.filters.regime, price, ema_trend, ema_trend_prev, atr, adx,
                    ema_diff).allow_long
    /\ VolDecide(cfg.filters.volatility, atr, vol_z)
    /\ TrendDecide(cfg.guards.counter_trend, price, ema_trend).allow_long

\* a slip: the short test copied from the long test with only the probability
\* turned round
should_open_short_v2_copied(p_up, ema_diff, threshold, price, ema_trend, ema_trend_prev, atr, adx, vol_z, cfg) ==
    /\ p_up.kind = "num" /\ (100 - p_up.v) >= threshold /\ RawGt(ema_diff, 0)
    /\ RegimeDecide(cfg.filters.regime, price, ema_trend, ema_trend_prev, atr, adx,
                    ema_diff).allow_long
    /\ VolDecide(cfg.filters.volatility, atr, vol_z)
    /\ TrendDecide(cfg.guards.counter_trend, price, ema_trend).allow_long

\* should_open_short_v2: (1.0 - p_up) >= prob_threshold
should_open_short_v2(p_up, ema_diff, threshold, price, ema_trend, ema_trend_prev, atr, adx, vol_z, cfg) ==
    /\ p_up.kind = "num" /\ (100 - p_up.v) >= threshold /\ RawLt(ema_diff, 0)
    /\ RegimeDecide(cfg.filters.regime, price, ema_trend, ema_trend_prev, atr, adx,
                    ema_diff).allow_short
    /\ VolDecide(cfg.filters.volatility, atr, vol_z)
    /\ TrendDecide(cfg.guards.counter_trend, price, ema_trend).allow_short

\* the if / elif of both loops: long first, short only when long is not selected
SideToOpen(c) ==
    IF should_open_long_v2(Num(c.p_up), Num(c.ema_diff), prob_threshold, Num(c.close),
                           Num(c.ema_trend), Num(c.ema_trend_prev), Num(c.atr14), None,
                           Num(c.vol_z), Cfg)
    THEN "LONG"
    ELSE IF should_open_short_v2(Num(c.p_up), Num(c.ema_diff), prob_threshold,
                                 Num(c.close), Num(c.ema_trend), Num(c.ema_trend_prev),
                                 Num(c.atr14), None, Num(c.vol_z), Cfg)
    THEN "SHORT"
    ELSE "NONE"

(* ------------------------------ RiskManager ---------------------------- *)

\* a slip: the drawdown measured from the starting equity instead of the
\* day's baseline
day_dd_all_time(eq, base) ==
    [num |-> eq - starting_equity * FScale, den |-> starting_equity * FScale]

\* day_dd: (equity - start_equity_day) / start_equity_day, as a fraction
day_dd(eq, base) == [num |-> eq - base, den |-> base]

\* a slip: the limit compared with < instead of <=
BreachStrict(eq, base) ==
    LET dd == day_dd(eq, base)
    IN  IF dd.den > 0 THEN dd.num * DmlDen < -(DmlNum * dd.den)
        ELSE dd.num * DmlDen > -(DmlNum * dd.den)

\* self.day_dd() <= -self.daily_max_loss (the baseline is never 0 here)
Breach(eq, base) ==
    LET dd == day_dd(eq, base)
    IN  IF dd.den > 0 THEN dd.num * DmlDen <= -(DmlNum * dd.den)
        ELSE dd.num * DmlDen >= -(DmlNum * dd.den)

\* a slip: halted recomputed from the drawdown on every equity update
HaltedAfterUpdateRecomputed(h, eq, base) == Breach(eq, base)

\* update_equity: halted is set on a breach and otherwise left as it is
HaltedAfterUpdate(h, eq, base) == IF Breach(eq, base) THEN TRUE ELSE h

\* can_trade: [ok, halted]
CanTrade(h, eq, base) ==
    IF h THEN [ok |-> FALSE, halted |-> h]
    ELSE IF Breach(eq, base) THEN [ok |-> FALSE, halted |-> TRUE]
    ELSE [ok |-> TRUE, halted |-> h]

\* a slip: the risk amount taken from the starting equity
risk_amount_stale(eq) == RoundDiv(starting_equity * FScale * RptNum, RptDen)

\* risk_amount: self.equity * self.risk_per_trade
risk_amount(eq) == RoundDiv(eq * RptNum, RptDen)

(* --------------------------- EntryClusterGuard ------------------------- *)

\* the six dicts, all empty
NewGuard ==
    [last_trade_bar |-> <<>>, last_side |-> <<>>, same_side_count |-> <<>>,
     same_side_window_start |-> <<>>, loss_streak |-> <<>>,
     pause_until_bar |-> <<>>]

\* d[k] = v on a dict
Put(d, k, v) == [x \in (DOMAIN d) \cup {k} |-> IF x = k THEN v ELSE d[x]]

\* d.get(k, default)
Get(d, k, default) == IF k \in DOMAIN d THEN d[k] ELSE default

\* the same-side branch of can_enter, reached when neither pause nor cooldown
\* denies: [allow, reason, g]
SameSideCheck(g, pair, side, bar_index) ==
    IF pair \in DOMAIN g.last_side /\ g.last_side[pair] = side
    THEN LET start == Get(g.same_side_window_start, pair, bar_index)
             g1 == IF (bar_index - start) > window_bars
                   THEN [g EXCEPT !.same_side_window_start = Put(@, pair, bar_index),
                                  !.same_side_count = Put(@, pair, 1)]
                   ELSE [g EXCEPT !.same_side_count =
                                      Put(@, pair, Get(g.same_side_count, pair, 1) + 1)]
         IN  IF g1.same_side_count[pair] > max_same_side
             THEN [allow |-> FALSE, reason |-> "same_side_cluster", g |-> g1]
             ELSE [allow |-> TRUE, reason |-> "cluster_ok", g |-> g1]
    ELSE [allow |-> TRUE, reason |-> "cluster_ok",
          g |-> [g EXCEPT !.same_side_window_start = Put(@, pair, bar_index),
                          !.same_side_count = Put(@, pair, 1)]]

\* a slip: the cooldown ends one bar early (< instead of <=)
ClusterCanEnterStrictCooldown(g, pair, side, bar_index) ==
    IF ~cluster_enabled
    THEN [allow |-> TRUE, reason |-> "cluster_guard_disabled", g |-> g]
    ELSE IF pair \in DOMAIN g.pause_until_bar /\ bar_index < g.pause_until_bar[pair]
    THEN [allow |-> FALSE, reason |-> "paused_until_bar", g |-> g]
    ELSE IF /\ pair \in DOMAIN g.last_trade_bar
            /\ (bar_index - g.last_trade_bar[pair]) < cooldown_bars
    THEN [allow |-> FALSE, reason |-> "cooldown_active", g |-> g]
    ELSE SameSideCheck(g, pair, side, bar_index)

\* a slip: an admitted entry is recorded as the pair's last side
ClusterCanEnterRecordsSide(g, pair, side, bar_index) ==
    IF ~cluster_enabled
    THEN [allow |-> TRUE, reason |-> "cluster_guard_disabled", g |-> g]
    ELSE IF pair \in DOMAIN g.pause_until_bar /\ bar_index < g.pause_until_bar[pair]
    THEN [allow |-> FALSE, reason |-> "paused_until_bar", g |-> g]
    ELSE IF /\ pair \in DOMAIN g.last_trade_bar
            /\ (bar_index - g.last_trade_bar[pair]) <= cooldown_bars
    THEN [allow |-> FALSE, reason |-> "cooldown_active", g |-> g]
    ELSE LET r == SameSideCheck(g, pair, side, bar_index)
         IN  IF r.allow THEN [r EXCEPT !.g.last_side = Put(@, pair, side)] ELSE r

\* EntryClusterGuard.can_enter: [allow, reason, g]
ClusterCanEnter(g, pair, side, bar_index) ==
    IF ~cluster_enabled
    THEN [allow |-> TRUE, reason |-> "cluster_guard_disabled", g |-> g]
    ELSE IF pair \in DOMAIN g.pause_until_bar /\ bar_index < g.pause_until_bar[pair]
    THEN [allow |-> FALSE, reason |-> "paused_until_bar", g |-> g]
    ELSE IF /\ pair \in DOMAIN g.last_trade_bar
            /\ (bar_index - g.last_trade_bar[pair]) <= cooldown_bars
    THEN [allow |-> FALSE, reason |-> "cooldown_active", g |-> g]
    ELSE SameSideCheck(g, pair, side, bar_index)

\* a slip: a non-losing close ends the pause of its pair
ClusterOnTradeClosedWinEndsPause(g, pair, side, bar_index, pnl) ==
    IF ~cluster_enabled THEN g
    ELSE LET g1 == [g EXCEPT !.last_trade_bar = Put(@, pair, bar_index),
                             !.last_side = Put(@, pair, side)]
         IN  IF pnl < 0
             THEN LET n == Get(g1.loss_streak, pair, 0) + 1
                      g2 == [g1 EXCEPT !.loss_streak = Put(@, pair, n)]
                  IN  IF n >= block_after_losses
                      THEN [g2 EXCEPT !.pause_until_bar =
                               Put(@, pair, bar_index + pause_bars_after_loss_streak)]
                      ELSE g2
             ELSE [g1 EXCEPT !.loss_streak = Put(@, pair, 0),
                             !.pause_until_bar = Put(@, pair, bar_index)]

\* a slip: a close with pnl exactly 0 counts as a loss (<= instead of <)
ClusterOnTradeClosedZeroIsLoss(g, pair, side, bar_index, pnl) ==
    IF ~cluster_enabled THEN g
    ELSE LET g1 == [g EXCEPT !.last_trade_bar = Put(@, pair, bar_index),
                             !.last_side = Put(@, pair, side)]
         IN  IF pnl <= 0
             THEN LET n == Get(g1.loss_streak, pair, 0) + 1
                      g2 == [g1 EXCEPT !.loss_streak = Put(@, pair, n)]
                  IN  IF n >= block_after_losses
                      THEN [g2 EXCEPT !.pause_until_bar =
                               Put(@, pair, bar_index + pause_bars_after_loss_streak)]
                      ELSE g2
             ELSE [g1 EXCEPT !.loss_streak = Put(@, pair, 0)]

\* EntryClusterGuard.on_trade_closed
ClusterOnTradeClosed(g, pair, side, bar_index, pnl) ==
    IF ~cluster_enabled THEN g
    ELSE LET g1 == [g EXCEPT !.last_trade_bar = Put(@, pair, bar_index),
                             !.last_side = Put(@, pair, side)]
         IN  IF pnl < 0
             THEN LET n == Get(g1.loss_streak, pair, 0) + 1
                      g2 == [g1 EXCEPT !.loss_streak = Put(@, pair, n)]
                  IN  IF n >= block_after_losses
                      THEN [g2 EXCEPT !.pause_until_bar =
                               Put(@, pair, bar_index + pause_bars_after_loss_streak)]
                      ELSE g2
             ELSE [g1 EXCEPT !.loss_streak = Put(@, pair, 0)]

\* a slip: can_enter consults the cluster guard without asking can_trade
RmCanEnterNoHalt(h, eq, base, g, pair, side, bar_index) ==
    LET d == ClusterCanEnter(g, pair, side, bar_index)
    IN  [ok |-> d.allow, halted |-> h, g |-> d.g]

\* a slip: can_enter consults the cluster guard first and asks can_trade after
RmCanEnterGuardFirst(h, eq, base, g, pair, side, bar_index) ==
    LET d == ClusterCanEnter(g, pair, side, bar_index)
        ct == CanTrade(h, eq, base)
    IN  IF ~ct.ok THEN [ok |-> FALSE, halted |-> ct.halted, g |-> d.g]
        ELSE [ok |-> d.allow, halted |-> ct.halted, g |-> d.g]

\* RiskManager.can_enter: [ok, halted, g]
RmCanEnter(h, eq, base, g, pair, side, bar_index) ==
    LET ct == CanTrade(h, eq, base)
    IN  IF ~ct.ok THEN [ok |-> FALSE, halted |-> ct.halted, g |-> g]
        ELSE LET d == ClusterCanEnter(g, pair, side, bar_index)
             IN  [ok |-> d.allow, halted |-> ct.halted, g |-> d.g]

\* a slip: the cluster guard is built anew with the day
reset_day_new_guard(rm) ==
    [rm EXCEPT !.start_equity_day = rm.equity, !.halted = FALSE,
               !.cluster_guard = NewGuard]

\* reset_day on the RiskManager rm = [equity, start_equity_day, halted,
\* cluster_guard]
reset_day(rm) == [rm EXCEPT !.start_equity_day = rm.equity, !.halted = FALSE]

(* ------------------------- history of the positions ------------------- *)

\* the streak of admitted entries of a pair: consecutive admitted entries of
\* one side, all within window_bars bars of the first of them
NoStreak == [side |-> "", first |-> 0, n |-> 0]

StreakAfter(st, side, bar_index) ==
    IF st.n > 0 /\ st.side = side /\ bar_index - st.first <= window_bars
    THEN [st EXCEPT !.n = @ + 1]
    ELSE [side |-> side, first |-> bar_index, n |-> 1]


\* a position enters the ledger: no bar evaluated, no exit record yet;
\* iteration is the loop iteration that opened it
TrackOpen(tr, res, iteration) ==
    IF res = <<>> THEN tr
    ELSE Put(tr, res[1].trade_id, [bars |-> {}, exits |-> 0, iter |-> iteration])

\* update_bar with the bar at ts: every position it iterates over was evaluated
\* on that bar; every exit record is counted
TrackUpdate(tr, before, closed, ts) ==
    [id \in DOMAIN tr |->
        [iter |-> tr[id].iter,
         bars |-> IF \E i \in 1..Len(before) : before[i].trade_id = id
                  THEN tr[id].bars \cup {ts} ELSE tr[id].bars,
         exits |-> tr[id].exits
                     + Cardinality({j \in 1..Len(closed) : closed[j].pos.trade_id = id})]]

(* ----------------------- direct calls on the executor ------------------ *)

\* the state after construction, with n candles of every pair stored
InitWith(n) ==
    /\ positions = [p \in PairSet |-> <<>>]
    /\ equity = starting_equity * FScale
    /\ start_equity_day = starting_equity * FScale
    /\ halted = FALSE
    /\ cg = NewGuard
    /\ nbars = [p \in PairSet |-> n]
    /\ riskOf = <<>>
    /\ last = NoCall
    /\ pc = [at |-> "tick", i |-> 0]
    /\ tick = 0
    /\ idle = 0
    /\ track = <<>>
    /\ guardLog = [streak |-> [p \in PairSet |-> NoStreak],
                   lossRun |-> [p \in PairSet |-> 0]]
    /\ evaluated = FALSE
    /\ trades = <<>>
    /\ last_day = 0
    /\ now = 0
    /\ today = 1
    /\ latest = [p \in PairSet |-> [ts |-> 0, day |-> 1, high |-> 100, low |-> 100,
                                    close |-> 100]]
    /\ sig = [p \in PairSet |-> SigNone]
    /\ pend = "NONE"

InitCore == InitWith(FirstBarIdx)

\* open_long / open_short called with a fresh trade id
ExecOpen ==
    /\ mode = "exec"
    /\ \E side \in {"LONG", "SHORT"}, pair \in PairSet, ts \in OpenTsValues,
       price \in EntryPrices, atr14 \in AtrValues, risk \in RiskValues :
        /\ Len(riskOf) < MaxTrades
        /\ LET id == Len(riskOf) + 1
               res == OpenResult(side, id, pair, ts, price, atr14, risk)
           IN  /\ positions' = LedgerAfterOpen(positions, pair, res)
               /\ track' = TrackOpen(track, res, 0)
               /\ riskOf' = Append(riskOf, risk)
               /\ last' = [NoCall EXCEPT !.op = "open", !.pair = pair, !.side = side,
                                         !.ts = ts, !.price = price, !.atr = atr14,
                                         !.risk = risk, !.before = positions[pair],
                                         !.pos = res, !.ok = (res # <<>>)]
        /\ UNCHANGED <<guardLog, equity, start_equity_day, halted, cg, nbars, loopVars>>

\* update_bar called with any bar, for a pair that holds positions (on an
\* empty pair the call returns two empty lists)
ExecUpdateBar ==
    /\ mode = "exec"
    /\ \E pair \in PairSet, ts \in BarTsValues, b \in Bars :
        LET r == UpdateBarResult(positions[pair], ts, b.high, b.low, b.close)
        IN  /\ positions[pair] # <<>>
            /\ positions' = [positions EXCEPT ![pair] = r.still]
            /\ track' = TrackUpdate(track, positions[pair], r.closed, ts)
            /\ last' = [NoCall EXCEPT !.op = "update_bar", !.pair = pair, !.ts = ts,
                                      !.high = b.high, !.low = b.low, !.close = b.close,
                                      !.before = positions[pair],
                                      !.still = r.still, !.closed = r.closed]
            /\ UNCHANGED <<guardLog, equity, start_equity_day, halted, cg, nbars, riskOf,
                          loopVars>>

ExecNext == ExecOpen \/ ExecUpdateBar

InitExec == InitCore /\ mode = "exec"

SpecExec == InitExec /\ [][ExecNext]_vars

(* ----------------------- direct calls on the RiskManager --------------- *)

RiskResetDay ==
    /\ mode = "risk"
    /\ LET rm == reset_day([equity |-> equity, start_equity_day |-> start_equity_day,
                            halted |-> halted, cluster_guard |-> cg])
       IN  /\ equity' = rm.equity
           /\ start_equity_day' = rm.start_equity_day
           /\ halted' = rm.halted
           /\ cg' = rm.cluster_guard
    /\ last' = [NoCall EXCEPT !.op = "reset_day"]
    /\ UNCHANGED <<guardLog, track, positions, nbars, riskOf, loopVars>>

RiskUpdateEquity ==
    /\ mode = "risk"
    /\ \E new_equity \in EquityValues :
        /\ equity' = new_equity
        /\ halted' = HaltedAfterUpdate(halted, new_equity, start_equity_day)
        /\ last' = [NoCall EXCEPT !.op = "update_equity", !.value = new_equity]
        /\ UNCHANGED <<guardLog, track, positions, start_equity_day, cg, nbars, riskOf, loopVars>>

\* rm.equity assigned by a caller without update_equity (the attribute is
\* public; can_trade re-checks the drawdown for this case)
RiskAssignEquity ==
    /\ mode = "risk"
    /\ \E new_equity \in EquityValues :
        /\ equity' = new_equity
        /\ last' = [NoCall EXCEPT !.op = "assign_equity", !.value = new_equity]
        /\ UNCHANGED <<guardLog, track, positions, start_equity_day, halted, cg, nbars, riskOf,
                      loopVars>>

RiskCanTrade ==
    /\ mode = "risk"
    /\ LET r == CanTrade(halted, equity, start_equity_day)
       IN  /\ halted' = r.halted
           /\ last' = [NoCall EXCEPT !.op = "can_trade", !.ok = r.ok]
           /\ UNCHANGED <<guardLog, track, positions, equity, start_equity_day, cg, nbars, riskOf,
                         loopVars>>

RiskCanEnter ==
    /\ mode = "risk"
    /\ \E pair \in RiskPairs, side \in Sides :
        LET r == RmCanEnter(halted, equity, start_equity_day, cg, pair, side, nbars[pair])
        IN  /\ Get(cg.same_side_count, pair, 1) < MaxCount
            /\ halted' = r.halted
            /\ cg' = r.g
            /\ last' = [NoCall EXCEPT !.op = "can_enter", !.pair = pair, !.side = side,
                                      !.bar_index = nbars[pair], !.ok = r.ok]
            /\ UNCHANGED <<guardLog, track, positions, equity, start_equity_day, nbars, riskOf,
                          loopVars>>

RiskRiskAmount ==
    /\ mode = "risk"
    /\ last' = [NoCall EXCEPT !.op = "risk_amount", !.value = risk_amount(equity)]
    /\ UNCHANGED <<guardLog, track, positions, equity, start_equity_day, halted, cg, nbars,
                  riskOf, loopVars>>

RiskOnTradeClosed ==
    /\ mode = "risk"
    /\ \E pair \in RiskPairs, side \in Sides, pnl \in PnlValues :
        /\ Get(cg.loss_streak, pair, 0) < MaxLosses
        /\ cg' = ClusterOnTradeClosed(cg, pair, side, nbars[pair], pnl)
        /\ last' = [NoCall EXCEPT !.op = "on_trade_closed", !.pair = pair, !.side = side,
                                  !.bar_index = nbars[pair], !.value = pnl]
        /\ UNCHANGED <<guardLog, track, positions, equity, start_equity_day, halted, nbars,
                      riskOf, loopVars>>

RiskNext ==
    \/ RiskResetDay
    \/ RiskUpdateEquity
    \/ RiskAssignEquity
    \/ RiskCanTrade
    \/ RiskCanEnter
    \/ RiskRiskAmount
    \/ RiskOnTradeClosed

InitRisk == InitCore /\ mode = "risk"

SpecRisk == InitRisk /\ [][RiskNext]_vars

(* ------------------ direct calls on the EntryClusterGuard --------------- *)

\* a new bar of one pair: the bar index its callers pass grows by one (bars
\* and closes are driven for the first pair; the other pair only asks)
GuardNewBar ==
    /\ mode = "guard"
    /\ \E pair \in RiskPairs :
        /\ nbars[pair] < FirstBarIdx + MaxBars
        /\ nbars' = [nbars EXCEPT ![pair] = @ + 1]
    /\ last' = NoCall
    /\ UNCHANGED <<track, positions, equity, start_equity_day, halted, cg, riskOf,
                  guardLog, loopVars>>

\* can_enter(pair, side, bar_index) at the pair's current bar
GuardCanEnter ==
    /\ mode = "guard"
    /\ \E pair \in PairSet, side \in Sides :
        LET r == ClusterCanEnter(cg, pair, side, nbars[pair])
        IN  /\ Get(cg.same_side_count, pair, 1) < MaxCount
            /\ guardLog.streak[pair].n < MaxAdmits
            /\ cg' = r.g
            /\ guardLog' = IF r.allow
                           THEN [guardLog EXCEPT !.streak[pair] =
                                    StreakAfter(@, side, nbars[pair])]
                           ELSE guardLog
            /\ last' = [NoCall EXCEPT !.op = "can_enter", !.pair = pair, !.side = side,
                                      !.bar_index = nbars[pair], !.ok = r.allow,
                                      !.reason = r.reason]
    /\ UNCHANGED <<track, positions, equity, start_equity_day, halted, nbars, riskOf,
                  loopVars>>

\* on_trade_closed(pair, side, bar_index, pnl) at the pair's current bar
GuardOnTradeClosed ==
    /\ mode = "guard"
    /\ \E pair \in RiskPairs, side \in Sides, pnl \in PnlValues :
        /\ Get(cg.loss_streak, pair, 0) < MaxLosses
        /\ cg' = ClusterOnTradeClosed(cg, pair, side, nbars[pair], pnl)
        /\ guardLog' = [guardLog EXCEPT !.lossRun[pair] = IF pnl < 0 THEN @ + 1 ELSE 0]
        /\ last' = [NoCall EXCEPT !.op = "on_trade_closed", !.pair = pair, !.side = side,
                                  !.bar_index = nbars[pair], !.value = pnl]
    /\ UNCHANGED <<track, positions, equity, start_equity_day, halted, nbars, riskOf,
                  loopVars>>

GuardNext == GuardNewBar \/ GuardCanEnter \/ GuardOnTradeClosed

InitGuard == InitCore /\ mode = "guard"

SpecGuard == InitGuard /\ [][GuardNext]_vars

(* --------------------------- persistence (trades) ---------------------- *)

\* insert_trade_open: a new row, exit columns NULL (reason ""); the id is the
\* row number.  closes counts the close_trade updates the row has received.
InsertTradeOpen(rows, pair, entry_ts, side, entry_price) ==
    Append(rows, [pair |-> pair, entry_ts |-> entry_ts, side |-> side,
                  entry_price |-> entry_price, size_units |-> 0, sl_price |-> 0,
                  tp_price |-> 0, exit_ts |-> 0, exit_price |-> 0, pnl |-> 0,
                  reason |-> "", closes |-> 0])

\* close_trade: UPDATE trades SET exit_ts, exit_price, pnl, reason WHERE id
CloseTrade(rows, id, exit_ts, exit_price, pnl, reason) ==
    IF id \in 1..Len(rows)
    THEN [rows EXCEPT ![id] = [@ EXCEPT !.exit_ts = exit_ts, !.exit_price = exit_price,
                                        !.pnl = pnl, !.reason = reason,
                                        !.closes = @ + 1]]
    ELSE rows

\* UPDATE trades SET size_units, sl_price, tp_price WHERE id
BackfillTrade(rows, id, pos) ==
    [rows EXCEPT ![id] = [@ EXCEPT !.size_units = pos.units, !.sl_price = pos.sl,
                                   !.tp_price = pos.tp]]

\* a slip: the reserved row of an aborted open is left open
NoAtrCloseMissing(rows, id, ts, price) == rows

\* the loops' handling of pos is None: close_trade(id, ts, close, 0.0, "NO_ATR")
NoAtrClose(rows, id, ts, price) == CloseTrade(rows, id, ts, price, 0, "NO_ATR")

(* ------------------------------ the two loops -------------------------- *)

\* the modes that run a loop: the live loop, the replay loop, and the live loop
\* with faults raised inside its try block
LoopModes == {"live", "replay", "faulty"}

LiveModes == {"live", "faulty"}

Live == mode \in LiveModes

\* a slip: update_equity is called for losing closures only
RECURSIVE ApplyClosuresLossesOnly(_, _, _, _, _)
ApplyClosuresLossesOnly(st, closed, pair, bar_idx, base) ==
    IF closed = <<>> THEN st
    ELSE LET c == Head(closed)
             eq1 == IF c.pnl < 0 THEN st.equity + c.pnl ELSE st.equity
         IN  ApplyClosuresLossesOnly(
                 [trades |-> CloseTrade(st.trades, c.pos.trade_id, c.ts, c.exit_price,
                                        c.pnl, c.reason),
                  equity |-> eq1,
                  halted |-> HaltedAfterUpdate(st.halted, eq1, base),
                  cg |-> ClusterOnTradeClosed(st.cg, pair, c.pos.side, bar_idx, c.pnl)],
                 Tail(closed), pair, bar_idx, base)

\* one closure of the for loop over closed: close_trade, update_equity,
\* on_trade_closed; st = [trades, equity, halted, cg]
RECURSIVE ApplyClosures(_, _, _, _, _)
ApplyClosures(st, closed, pair, bar_idx, base) ==
    IF closed = <<>> THEN st
    ELSE LET c == Head(closed)
             eq1 == st.equity + c.pnl
         IN  ApplyClosures(
                 [trades |-> CloseTrade(st.trades, c.pos.trade_id, c.ts, c.exit_price,
                                        c.pnl, c.reason),
                  equity |-> eq1,
                  halted |-> HaltedAfterUpdate(st.halted, eq1, base),
                  cg |-> ClusterOnTradeClosed(st.cg, pair, c.pos.side, bar_idx, c.pnl)],
                 Tail(closed), pair, bar_idx, base)

\* bar_idx = len(candles): the live loop loads at most candle_limit candles
BarIdx(m, n) == IF m \in LiveModes /\ n > candle_limit THEN candle_limit ELSE n

\* the context predict_last hands over for a pair
Ctx(pair) == [p_up |-> sig[pair].p_up, ema_diff |-> sig[pair].ema_diff,
              ema_trend |-> sig[pair].ema_trend,
              ema_trend_prev |-> sig[pair].ema_trend_prev,
              atr14 |-> sig[pair].atr14, vol_z |-> sig[pair].vol_z,
              close |-> latest[pair].close]

At(a, i) == [at |-> a, i |-> i]

\* where control goes when pair i is done with (continue, or the end of the body)
AfterPair(i) ==
    IF i < Len(Pairs)
    THEN IF Live THEN At("advance", i + 1) ELSE At("decide", i + 1)
    ELSE At("tick", 0)

\* rm.reset_day() in the rollover block: last_day = day, then the reset; st is
\* [last_day, base, halted, resets], resets counting the calls of reset_day
ResetDay(st, day) ==
    [last_day |-> day, base |-> equity, halted |-> FALSE, resets |-> st.resets + 1]

\* a slip: on the first day last_day is set after the second test instead of
\* before it, so the first day is reset twice
RolloverFirstDayTwice(day) ==
    LET st == [last_day |-> last_day, base |-> start_equity_day, halted |-> halted,
               resets |-> 0]
        s1 == IF last_day = 0 THEN ResetDay(st, 0) ELSE st
    IN  IF day # s1.last_day THEN ResetDay(s1, day) ELSE s1

\* the day-rollover block: the live loop has two ifs in a row (last_day is
\* None; day != last_day), the replay loop an if / elif
Rollover(day) ==
    LET st == [last_day |-> last_day, base |-> start_equity_day, halted |-> halted,
               resets |-> 0]
        s1 == IF last_day = 0 THEN ResetDay(st, day) ELSE st
    IN  IF Live
        THEN IF day # s1.last_day THEN ResetDay(s1, day) ELSE s1
        ELSE IF last_day = 0 THEN s1
        ELSE IF day # last_day THEN ResetDay(st, day)
        ELSE st

\* the head of one iteration: new candles are stored (live: fetched, possibly
\* none; replay: the next timestamp of the unified timeline, which at least
\* one pair has), then the day rollover; in the runs with faults every
\* iteration finds a new candle
LoopTick ==
    /\ mode \in LoopModes
    /\ pc.at = "tick"
    /\ \E arrive \in SUBSET PairSet, newday \in BOOLEAN :
        \E bars \in [arrive -> LoopBars], sigs \in [arrive -> SignalSet] :
          /\ IF arrive = {} THEN mode = "live" /\ idle < MaxIdle ELSE tick < MaxTicks
          /\ arrive = {} => ~newday
          /\ tick' = IF arrive = {} THEN tick ELSE tick + 1
          /\ idle' = IF arrive = {} THEN idle + 1 ELSE idle
          /\ now' = IF arrive = {} THEN now ELSE now + 1
          /\ today' = IF newday THEN today + 1 ELSE today
          /\ latest' = [p \in PairSet |->
                          IF p \in arrive
                          THEN [ts |-> now', day |-> today', high |-> bars[p].high,
                                low |-> bars[p].low, close |-> bars[p].close]
                          ELSE latest[p]]
          /\ sig' = [p \in PairSet |-> IF p \in arrive THEN sigs[p] ELSE sig[p]]
          /\ nbars' = [p \in PairSet |-> IF p \in arrive THEN nbars[p] + 1 ELSE nbars[p]]
          /\ LET day == IF Live THEN latest'[Pairs[1]].day ELSE today'
                 r == Rollover(day)
             IN  /\ last_day' = r.last_day
                 /\ start_equity_day' = r.base
                 /\ halted' = r.halted
                 /\ last' = [NoCall EXCEPT !.op = "rollover", !.value = r.resets]
    /\ evaluated' = FALSE
    /\ pc' = At("advance", 1)
    /\ UNCHANGED <<guardLog, positions, equity, cg, riskOf, mode, trades, pend, track>>

\* update_bar for pair i and the closures it returns
LoopAdvance ==
    /\ mode \in LoopModes
    /\ pc.at = "advance"
    /\ LET pair == Pairs[pc.i]
           skip == IF Live
                   THEN BarIdx(mode, nbars[pair]) < min_candles
                   ELSE latest[pair].ts # now
           ts == IF Live THEN latest[pair].ts ELSE now
           r == UpdateBarResult(positions[pair], ts, latest[pair].high,
                                latest[pair].low, latest[pair].close)
           st == ApplyClosures([trades |-> trades, equity |-> equity,
                                halted |-> halted, cg |-> cg],
                               r.closed, pair, BarIdx(mode, nbars[pair]),
                               start_equity_day)
       IN  IF skip
           THEN /\ pc' = IF Live THEN AfterPair(pc.i)
                         ELSE IF pc.i < Len(Pairs) THEN At("advance", pc.i + 1)
                         ELSE At("gate", 0)
                /\ last' = NoCall
                /\ UNCHANGED <<positions, equity, halted, cg, trades, track>>
           ELSE /\ positions' = [positions EXCEPT ![pair] = r.still]
                /\ track' = TrackUpdate(track, positions[pair], r.closed, ts)
                /\ trades' = st.trades
                /\ equity' = st.equity
                /\ halted' = st.halted
                /\ cg' = st.cg
                /\ last' = [NoCall EXCEPT !.op = "update_bar", !.pair = pair, !.ts = ts,
                                          !.high = latest[pair].high,
                                          !.low = latest[pair].low,
                                          !.close = latest[pair].close,
                                          !.before = positions[pair],
                                          !.still = r.still, !.closed = r.closed]
                /\ pc' = IF Live THEN At("decide", pc.i)
                         ELSE IF pc.i < Len(Pairs) THEN At("advance", pc.i + 1)
                         ELSE At("gate", 0)
    /\ UNCHANGED <<guardLog, start_equity_day, nbars, riskOf, mode, tick, last_day, now, today,
                   latest, sig, pend, idle, evaluated>>

\* replay: the halt and position-cap checks made once per timestamp, between
\* the advances and the entry decisions
LoopGate ==
    /\ mode = "replay"
    /\ pc.at = "gate"
    /\ LET ct == CanTrade(halted, equity, start_equity_day)
       IN  /\ halted' = ct.halted
           /\ pc' = IF ~ct.ok THEN At("tick", 0)
                    ELSE IF total_open(positions) >= max_open_positions THEN At("tick", 0)
                    ELSE At("decide", 1)
    /\ last' = NoCall
    /\ UNCHANGED <<guardLog, positions, equity, start_equity_day, cg, nbars, riskOf, mode, tick,
                   trades, last_day, now, today, latest, sig, pend, idle, track,
                   evaluated>>

\* the entry decision for pair i, up to and including rm.can_enter
LoopDecide ==
    /\ mode \in LoopModes
    /\ pc.at = "decide"
    /\ LET pair == Pairs[pc.i]
           bar_idx == BarIdx(mode, nbars[pair])
           ct == IF Live THEN CanTrade(halted, equity, start_equity_day)
                 ELSE [ok |-> TRUE, halted |-> halted]
           gated == IF Live
                    THEN ~ct.ok \/ total_open(positions) >= max_open_positions
                    ELSE bar_idx < min_candles
           side == SideToOpen(Ctx(pair))
           ce == RmCanEnter(ct.halted, equity, start_equity_day, cg, pair, side, bar_idx)
       IN  /\ evaluated' = (evaluated \/ ~gated)
           /\ IF gated \/ side = "NONE"
              THEN /\ halted' = ct.halted
                   /\ pc' = AfterPair(pc.i)
                   /\ last' = NoCall
                   /\ UNCHANGED <<cg, pend>>
              ELSE /\ halted' = ce.halted
                   /\ cg' = ce.g
                   /\ last' = [NoCall EXCEPT !.op = "can_enter", !.pair = pair,
                                             !.side = side, !.bar_index = bar_idx,
                                             !.ok = ce.ok]
                   /\ pend' = IF ce.ok THEN side ELSE "NONE"
                   /\ pc' = IF ce.ok THEN At("open", pc.i) ELSE AfterPair(pc.i)
    /\ UNCHANGED <<guardLog, positions, equity, start_equity_day, nbars, riskOf, mode, tick, trades,
                   last_day, now, today, latest, sig, idle, track>>

\* risk_amount, insert_trade_open, open_long / open_short, and then either
\* the NO_ATR close or the backfill of size, stop and target
LoopOpen ==
    /\ mode \in LoopModes
    /\ pc.at = "open"
    /\ LET pair == Pairs[pc.i]
           c == Ctx(pair)
           ts == latest[pair].ts
           risk == risk_amount(equity)
           rows == InsertTradeOpen(trades, pair, ts, pend, c.close)
           id == Len(rows)
           res == OpenResult(pend, id, pair, ts, c.close, c.atr14, risk)
       IN  /\ positions' = LedgerAfterOpen(positions, pair, res)
           /\ track' = TrackOpen(track, res, tick + idle)
           /\ trades' = IF res = <<>> THEN NoAtrClose(rows, id, ts, c.close)
                        ELSE BackfillTrade(rows, id, res[1])
           /\ riskOf' = Append(riskOf, risk)
           /\ last' = [NoCall EXCEPT !.op = "open", !.pair = pair, !.side = pend,
                                     !.ts = ts, !.price = c.close, !.atr = c.atr14,
                                     !.risk = risk, !.before = positions[pair],
                                     !.pos = res, !.ok = (res # <<>>)]
    /\ pend' = "NONE"
    /\ pc' = AfterPair(pc.i)
    /\ UNCHANGED <<guardLog, equity, start_equity_day, halted, cg, nbars, mode, tick, last_day,
                   now, today, latest, sig, idle, evaluated>>

LoopNext == LoopTick \/ LoopAdvance \/ LoopGate \/ LoopDecide \/ LoopOpen

InitLoops == InitCore /\ mode \in {"live", "replay"}

SpecLoops == InitLoops /\ [][LoopNext]_vars

\* the loops started on a store that holds one candle less than the live loop
\* loads at most
InitLongRun == InitWith(candle_limit - 1) /\ mode \in {"live", "replay"}

SpecLongRun == InitLongRun /\ [][LoopNext]_vars

(* ---------------- one iteration for a given order of the pairs --------- *)

\* what an iteration works on: the ledger, the RiskManager (with its guard)
\* and the trade rows
Cur ==
    [positions |-> positions, equity |-> equity, base |-> start_equity_day,
     halted |-> halted, cg |-> cg, trades |-> trades, riskOf |-> riskOf]

\* the pair is passed over by the advance of this iteration (live: fewer than
\* min_candles candles; replay: no bar at the timestamp)
SkipsPair(pair) ==
    IF Live THEN BarIdx(mode, nbars[pair]) < min_candles ELSE latest[pair].ts # now

\* update_bar for the pair with its latest bar, and the closures it returns
AdvancePair(st, pair) ==
    LET ts == IF Live THEN latest[pair].ts ELSE now
        r == UpdateBarResult(st.positions[pair], ts, latest[pair].high,
                             latest[pair].low, latest[pair].close)
        c == ApplyClosures([trades |-> st.trades, equity |-> st.equity,
                            halted |-> st.halted, cg |-> st.cg],
                           r.closed, pair, BarIdx(mode, nbars[pair]), st.base)
    IN  [st EXCEPT !.positions[pair] = r.still, !.trades = c.trades,
                   !.equity = c.equity, !.halted = c.halted, !.cg = c.cg]

\* the entry of the pair: the live loop's can_trade and position cap, the side
\* selection, rm.can_enter, and the open with its trade row
EntryPair(st, pair) ==
    LET bar_idx == BarIdx(mode, nbars[pair])
        ct == IF Live THEN CanTrade(st.halted, st.equity, st.base)
              ELSE [ok |-> TRUE, halted |-> st.halted]
        gated == IF Live
                 THEN ~ct.ok \/ total_open(st.positions) >= max_open_positions
                 ELSE bar_idx < min_candles
        c == Ctx(pair)
        side == SideToOpen(c)
        ce == RmCanEnter(ct.halted, st.equity, st.base, st.cg, pair, side, bar_idx)
        risk == risk_amount(st.equity)
        rows == InsertTradeOpen(st.trades, pair, latest[pair].ts, side, c.close)
        id == Len(rows)
        res == OpenResult(side, id, pair, latest[pair].ts, c.close, c.atr14, risk)
    IN  IF gated \/ side = "NONE" THEN [st EXCEPT !.halted = ct.halted]
        ELSE IF ~ce.ok THEN [st EXCEPT !.halted = ce.halted, !.cg = ce.g]
        ELSE [st EXCEPT !.halted = ce.halted, !.cg = ce.g,
                        !.positions = LedgerAfterOpen(st.positions, pair, res),
                        !.trades = IF res = <<>>
                                   THEN NoAtrClose(rows, id, latest[pair].ts, c.close)
                                   ELSE BackfillTrade(rows, id, res[1]),
                        !.riskOf = Append(st.riskOf, risk)]

\* the live loop's for pair in pairs: advance and entry pair by pair
RECURSIVE LivePairs(_, _)
LivePairs(st, order) ==
    IF order = <<>> THEN st
    ELSE LET pair == Head(order)
         IN  LivePairs(IF SkipsPair(pair) THEN st
                       ELSE EntryPair(AdvancePair(st, pair), pair),
                       Tail(order))

\* the replay loop's first for pair in pairs: the advances
RECURSIVE ReplayAdvances(_, _)
ReplayAdvances(st, order) ==
    IF order = <<>> THEN st
    ELSE LET pair == Head(order)
         IN  ReplayAdvances(IF SkipsPair(pair) THEN st ELSE AdvancePair(st, pair),
                            Tail(order))

\* the replay loop's second for pair in pairs: the entries
RECURSIVE ReplayEntries(_, _)
ReplayEntries(st, order) ==
    IF order = <<>> THEN st
    ELSE ReplayEntries(EntryPair(st, Head(order)), Tail(order))

\* the body of one iteration after the rollover, with the pairs in the given
\* order
Iteration(st, order) ==
    IF Live THEN LivePairs(st, order)
    ELSE LET a == ReplayAdvances(st, order)
             ct == CanTrade(a.halted, a.equity, a.base)
         IN  IF ~ct.ok THEN [a EXCEPT !.halted = ct.halted]
             ELSE IF total_open(a.positions) >= max_open_positions
             THEN [a EXCEPT !.halted = ct.halted]
             ELSE ReplayEntries([a EXCEPT !.halted = ct.halted], order)

\* the configured list in the opposite order
RECURSIVE Reverse(_)
Reverse(s) == IF s = <<>> THEN <<>> ELSE Append(Reverse(Tail(s)), Head(s))

(* ------------- faults inside the try block of the live loop ------------ *)

\* the except clause of the live loop: the rest of the iteration is skipped
\* and, after a sleep, the while loop starts its next iteration
AfterFault == At("tick", 0)

\* load_candles, predict_last or save_signal raises for pair i, before
\* update_bar is reached
FaultBeforeUpdate ==
    /\ mode = "faulty"
    /\ pc.at = "advance"
    /\ pc' = AfterFault
    /\ last' = [NoCall EXCEPT !.op = "fault", !.reason = "save_signal",
                              !.pair = Pairs[pc.i]]
    /\ UNCHANGED <<positions, equity, start_equity_day, halted, cg, nbars, riskOf, track,
                   guardLog, mode, tick, trades, last_day, now, today, latest, sig, pend,
                   idle, evaluated>>

\* update_bar has returned its exit records and close_trade raises for the
\* k-th of them: the records before it were applied in full
FaultInClosures ==
    /\ mode = "faulty"
    /\ pc.at = "advance"
    /\ LET pair == Pairs[pc.i]
           bar_idx == BarIdx(mode, nbars[pair])
           ts == latest[pair].ts
           r == UpdateBarResult(positions[pair], ts, latest[pair].high,
                                latest[pair].low, latest[pair].close)
       IN  /\ bar_idx >= min_candles
           /\ \E k \in 1..Len(r.closed) :
                LET st == ApplyClosures([trades |-> trades, equity |-> equity,
                                         halted |-> halted, cg |-> cg],
                                        SubSeq(r.closed, 1, k - 1), pair, bar_idx,
                                        start_equity_day)
                IN  /\ positions' = [positions EXCEPT ![pair] = r.still]
                    /\ track' = TrackUpdate(track, positions[pair], r.closed, ts)
                    /\ trades' = st.trades
                    /\ equity' = st.equity
                    /\ halted' = st.halted
                    /\ cg' = st.cg
                    /\ last' = [NoCall EXCEPT !.op = "fault", !.reason = "close_trade",
                                              !.pair = pair, !.ts = ts,
                                              !.bar_index = bar_idx,
                                              !.before = positions[pair],
                                              !.still = r.still, !.closed = r.closed,
                                              !.value = k]
    /\ pc' = AfterFault
    /\ UNCHANGED <<start_equity_day, nbars, riskOf, guardLog, mode, tick, last_day, now,
                   today, latest, sig, pend, idle, evaluated>>

\* insert_trade_open raises: no row, no call of the executor
FaultInInsert ==
    /\ mode = "faulty"
    /\ pc.at = "open"
    /\ pc' = AfterFault
    /\ pend' = "NONE"
    /\ last' = [NoCall EXCEPT !.op = "fault", !.reason = "insert_trade_open",
                              !.pair = Pairs[pc.i], !.side = pend,
                              !.before = positions[Pairs[pc.i]]]
    /\ UNCHANGED <<positions, equity, start_equity_day, halted, cg, nbars, riskOf, track,
                   guardLog, mode, tick, trades, last_day, now, today, latest, sig, idle,
                   evaluated>>

\* the row is reserved, open_long / open_short has appended the position, and
\* the UPDATE of size, stop and target raises
FaultInBackfill ==
    /\ mode = "faulty"
    /\ pc.at = "open"
    /\ LET pair == Pairs[pc.i]
           c == Ctx(pair)
           ts == latest[pair].ts
           risk == risk_amount(equity)
           rows == InsertTradeOpen(trades, pair, ts, pend, c.close)
           id == Len(rows)
           res == OpenResult(pend, id, pair, ts, c.close, c.atr14, risk)
       IN  /\ res # <<>>
           /\ positions' = LedgerAfterOpen(positions, pair, res)
           /\ track' = TrackOpen(track, res, tick + idle)
           /\ trades' = rows
           /\ riskOf' = Append(riskOf, risk)
           /\ last' = [NoCall EXCEPT !.op = "fault", !.reason = "backfill",
                                     !.pair = pair, !.side = pend, !.ts = ts,
                                     !.before = positions[pair], !.pos = res]
    /\ pend' = "NONE"
    /\ pc' = AfterFault
    /\ UNCHANGED <<guardLog, equity, start_equity_day, halted, cg, nbars, mode, tick,
                   last_day, now, today, latest, sig, idle, evaluated>>

FaultNext == FaultBeforeUpdate \/ FaultInClosures \/ FaultInInsert \/ FaultInBackfill

FaultyNext == LoopTick \/ LoopAdvance \/ LoopDecide \/ LoopOpen \/ FaultNext

InitFaults == InitCore /\ mode = "faulty"

SpecFaults == InitFaults /\ [][FaultyNext]_vars

(* ------------------- direct calls on the entry filters ----------------- *)

\* float arguments of the calls: numbers in ticks, NaN, and None where the
\* parameter is Optional
PriceArgs == {Num(99), Num(100), Num(101), NaN}

TrendArgs == {Num(99), Num(100)}

TrendPrevArgs == {None, NaN, Num(99), Num(100)}

AtrArgs == {Num(-1), Num(0), Num(3), Num(40), NaN}

AdxArgs == {None, NaN, Num(10), Num(18), Num(25)}

EmaDiffArgs == {None, NaN, Num(-1), Num(0), Num(1)}

ProbArgs == {NaN, Num(40), Num(50), Num(60)}

VolZArgs == {None, Num(0), Num(30)}

ThresholdArgs == {45, 55}

\* cfg["filters"]["regime"] with the switches either way
RegimeCfgs ==
    {[Cfg.filters.regime EXCEPT !.enabled = e, !.allow_range_trades = r] :
        e \in BOOLEAN, r \in BOOLEAN}

\* cfg with each filter and the trend guard enabled or not
SignalCfgs ==
    {[Cfg EXCEPT !.filters.regime.enabled = r, !.filters.volatility.enabled = v,
                 !.guards.counter_trend.enabled = t] :
        r \in BOOLEAN, v \in BOOLEAN, t \in BOOLEAN}

\* RegimeFilter(cfg).decide(price, ema_trend, ema_trend_prev, atr, adx, ema_diff)
FilterRegime ==
    /\ mode = "filter"
    /\ last = NoCall
    /\ \E cfg \in RegimeCfgs, price \in PriceArgs, ema_trend \in TrendArgs,
          ema_trend_prev \in TrendPrevArgs, atr \in AtrArgs, adx \in AdxArgs,
          ema_diff \in EmaDiffArgs :
          last' = [NoCall EXCEPT
                     !.op = "regime_decide",
                     !.args = [cfg |-> cfg, price |-> price, ema_trend |-> ema_trend,
                               ema_trend_prev |-> ema_trend_prev, atr |-> atr,
                               adx |-> adx, ema_diff |-> ema_diff],
                     !.out = RegimeDecide(cfg, price, ema_trend, ema_trend_prev, atr,
                                          adx, ema_diff)]
    /\ UNCHANGED <<track, positions, equity, start_equity_day, halted, cg, nbars, riskOf,
                   guardLog, loopVars>>

\* should_open_long_v2 and should_open_short_v2 on the same arguments
FilterSignal ==
    /\ mode = "filter"
    /\ last = NoCall
    /\ \E cfg \in SignalCfgs, p_up \in ProbArgs, ema_diff \in EmaDiffArgs \ {None},
          threshold \in ThresholdArgs, price \in PriceArgs \ {NaN},
          ema_trend_prev \in {None, Num(99)}, atr \in {Num(0), Num(3)},
          vol_z \in VolZArgs :
          last' = [NoCall EXCEPT
                     !.op = "should_open",
                     !.args = [cfg |-> cfg, p_up |-> p_up, ema_diff |-> ema_diff,
                               threshold |-> threshold, price |-> price,
                               ema_trend |-> Num(100),
                               ema_trend_prev |-> ema_trend_prev, atr |-> atr,
                               adx |-> None, vol_z |-> vol_z],
                     !.out = [long |-> should_open_long_v2(p_up, ema_diff, threshold,
                                           price, Num(100), ema_trend_prev, atr, None,
                                           vol_z, cfg),
                              short |-> should_open_short_v2(p_up, ema_diff, threshold,
                                           price, Num(100), ema_trend_prev, atr, None,
                                           vol_z, cfg)]]
    /\ UNCHANGED <<track, positions, equity, start_equity_day, halted, cg, nbars, riskOf,
                   guardLog, loopVars>>

\* cfg["filters"]["volatility"] with the switches either way, and with a floor
\* and a ceiling inside the range of the atr arguments
VolCfgs ==
    {[Cfg.filters.volatility EXCEPT !.enabled = e, !.block_on_spike = b,
                                    !.atr_min = lo, !.atr_max = hi] :
        e \in BOOLEAN, b \in BOOLEAN, lo \in {atr_min, 2}, hi \in {10, atr_max}}

VolAtrArgs == AtrArgs \cup {None, Num(2), Num(10)}

VolZCallArgs == {None, NaN, Num(0), Num(24), Num(25), Num(30)}

\* VolatilityFilter(cfg).decide(atr, vol_z)
FilterVol ==
    /\ mode = "filter"
    /\ last = NoCall
    /\ \E cfg \in VolCfgs, atr \in VolAtrArgs, vol_z \in VolZCallArgs :
          last' = [NoCall EXCEPT
                     !.op = "vol_decide",
                     !.args = [cfg |-> cfg, atr |-> atr, vol_z |-> vol_z],
                     !.out = [allow |-> VolDecide(cfg, atr, vol_z)]]
    /\ UNCHANGED <<track, positions, equity, start_equity_day, halted, cg, nbars, riskOf,
                   guardLog, loopVars>>

\* cfg["guards"]["counter_trend"] with the switches either way
TrendCfgs ==
    {[enabled |-> e, req_above_for_long |-> a, req_below_for_short |-> b] :
        e \in BOOLEAN, a \in BOOLEAN, b \in BOOLEAN}

\* TrendGuard(cfg).decide(price, ema_trend)
FilterTrend ==
    /\ mode = "filter"
    /\ last = NoCall
    /\ \E cfg \in TrendCfgs, price \in PriceArgs \cup {None},
          ema_trend \in TrendArgs \cup {NaN, Num(0)} :
          last' = [NoCall EXCEPT
                     !.op = "trend_decide",
                     !.args = [cfg |-> cfg, price |-> price, ema_trend |-> ema_trend],
                     !.out = TrendDecide(cfg, price, ema_trend)]
    /\ UNCHANGED <<track, positions, equity, start_equity_day, halted, cg, nbars, riskOf,
                   guardLog, loopVars>>

FilterNext == FilterRegime \/ FilterSignal \/ FilterVol \/ FilterTrend

InitFilter == InitCore /\ mode = "filter"

SpecFilter == InitFilter /\ [][FilterNext]_vars

(* ------------- a ledger whose pairs keep receiving bars ---------------- *)

\* open_long / open_short at the entry price with a usable ATR
HoldOpen ==
    /\ mode = "hold"
    /\ \E side \in Sides, pair \in PairSet :
        /\ Len(riskOf) < MaxTrades
        /\ LET id == Len(riskOf) + 1
               risk == risk_amount(equity)
               res == OpenResult(side, id, pair, 1, 100, 3, risk)
           IN  /\ positions' = LedgerAfterOpen(positions, pair, res)
               /\ track' = TrackOpen(track, res, 0)
               /\ riskOf' = Append(riskOf, risk)
               /\ last' = [NoCall EXCEPT !.op = "open", !.pair = pair, !.side = side,
                                         !.ts = 1, !.price = 100, !.atr = 3,
                                         !.risk = risk, !.before = positions[pair],
                                         !.pos = res, !.ok = (res # <<>>)]
    /\ UNCHANGED <<guardLog, equity, start_equity_day, halted, cg, nbars, loopVars>>

\* update_bar for the pair with its next bar, while it holds positions
HoldUpdateBar(pair) ==
    /\ mode = "hold"
    /\ positions[pair] # <<>>
    /\ \E b \in LoopBars :
        LET r == UpdateBarResult(positions[pair], 2, b.high, b.low, b.close)
        IN  /\ positions' = [positions EXCEPT ![pair] = r.still]
            /\ track' = TrackUpdate(track, positions[pair], r.closed, 2)
            /\ last' = [NoCall EXCEPT !.op = "update_bar", !.pair = pair, !.ts = 2,
                                      !.high = b.high, !.low = b.low, !.close = b.close,
                                      !.before = positions[pair],
                                      !.still = r.still, !.closed = r.closed]
    /\ UNCHANGED <<guardLog, equity, start_equity_day, halted, cg, nbars, riskOf,
                   loopVars>>

HoldNext == HoldOpen \/ \E pair \in PairSet : HoldUpdateBar(pair)

InitHold == InitCore /\ mode = "hold"

\* bars of every pair keep being processed
SpecHold ==
    InitHold /\ [][HoldNext]_vars /\ \A pair \in PairSet : WF_vars(HoldUpdateBar(pair))

(* ------------------------------ everything ----------------------------- *)

Init ==
    InitCore /\ mode \in {"exec", "risk", "guard", "filter", "hold", "live", "replay", "faulty"}

Next ==
    ExecNext \/ RiskNext \/ GuardNext \/ FilterNext \/ HoldNext \/ LoopNext \/ FaultNext

Spec == Init /\ [][Next]_vars

(* ------------------------------------------------------------------------ *)
(* Properties of update_bar and open_long / open_short (under SpecExec)     *)
(* ------------------------------------------------------------------------ *)

\* the last call was update_bar
AfterUpdateBar == last.op = "update_bar"

\* the exit records of the last update_bar for one trade id
RecordsOf(id) == {j \in 1..Len(last.closed) : last.closed[j].pos.trade_id = id}

StillOf(id) == {j \in 1..Len(last.still) : last.still[j].trade_id = id}

\* the bar (high, low) reaches the stop / the target of p
StopTouched(p, high, low) ==
    IF p.side = "LONG" THEN low <= p.sl ELSE high >= p.sl

TargetTouched(p, high, low) ==
    IF p.side = "LONG" THEN high >= p.tp ELSE low <= p.tp

\* C1: a position whose stop and target are both touched by the bar exits with
\* reason SL at the stop level, never TP; a TP record exists only for a
\* position whose stop the bar did not touch.
C1_StopBeforeTarget ==
    AfterUpdateBar =>
        /\ \A i \in 1..Len(last.before) :
              LET p == last.before[i]
              IN  (StopTouched(p, last.high, last.low) /\ TargetTouched(p, last.high, last.low))
                  => /\ RecordsOf(p.trade_id) # {}
                     /\ \A j \in RecordsOf(p.trade_id) :
                           /\ last.closed[j].reason = "SL"
                           /\ last.closed[j].exit_price = p.sl
        /\ \A j \in 1..Len(last.closed) :
              last.closed[j].reason = "TP"
              => ~StopTouched(last.closed[j].pos, last.high, last.low)

\* a bar that touches stop and target of a LONG and of a SHORT of the same pair
C1_Witness ==
    /\ AfterUpdateBar
    /\ \E i, k \in 1..Len(last.before) :
          /\ last.before[i].side = "LONG"
          /\ last.before[k].side = "SHORT"
          /\ StopTouched(last.before[i], last.high, last.low)
          /\ TargetTouched(last.before[i], last.high, last.low)
          /\ StopTouched(last.before[k], last.high, last.low)
          /\ TargetTouched(last.before[k], last.high, last.low)
          /\ Len(last.closed) = 2

\* C2: update_bar partitions the positions that were open on the pair: each is
\* in the returned still-open list (which is the ledger afterwards) or in
\* exactly one exit record, never both, never neither.
C2_Partition ==
    AfterUpdateBar =>
        /\ positions[last.pair] = last.still
        /\ Len(last.before) = Len(last.still) + Len(last.closed)
        /\ \A i \in 1..Len(last.before) :
              Cardinality(RecordsOf(last.before[i].trade_id))
                + Cardinality(StillOf(last.before[i].trade_id)) = 1
        /\ \A j \in 1..Len(last.closed) :
              \E i \in 1..Len(last.before) :
                  last.before[i].trade_id = last.closed[j].pos.trade_id
        /\ \A j \in 1..Len(last.still) :
              \E i \in 1..Len(last.before) :
                  last.before[i].trade_id = last.still[j].trade_id

\* one position of the pair exits and another stays
C2_Witness ==
    /\ AfterUpdateBar
    /\ Len(last.before) = 2
    /\ Len(last.still) = 1
    /\ Len(last.closed) = 1

DistOf(p) == Abs(p.entry_price - p.sl)

\* C9 as stated: size = R / d, an SL exit fills at the stop and realizes
\* exactly -R, a TP exit fills at the target and realizes exactly
\* tp_r_mult * R.
C9_ExactPnl ==
    AfterUpdateBar =>
        \A j \in 1..Len(last.closed) :
            LET c == last.closed[j]
                R == riskOf[c.pos.trade_id]
            IN  /\ c.pos.units * DistOf(c.pos) = R
                /\ c.reason = "SL" => (c.exit_price = c.pos.sl /\ c.pnl = -R)
                /\ c.reason = "TP" => (c.exit_price = c.pos.tp /\ c.pnl = tp_r_mult * R)

\* C9 amended: size is the rounded quotient R / d (within half a grid step);
\* an SL exit fills at the stop level and realizes -(d * size), a TP exit
\* fills at the target level and realizes tp_r_mult * d * size, whatever the
\* bar's extremes; these are -R and tp_r_mult * R up to the rounding of size.
C9_PnlUpToRounding ==
    AfterUpdateBar =>
        \A j \in 1..Len(last.closed) :
            LET c == last.closed[j]
                R == riskOf[c.pos.trade_id]
                d == DistOf(c.pos)
            IN  /\ c.pos.units > 0
                /\ 2 * Abs(c.pos.units * d - R) <= d
                /\ c.reason = "SL" =>
                      /\ c.exit_price = c.pos.sl
                      /\ c.pnl = -(d * c.pos.units)
                      /\ 2 * Abs(c.pnl + R) <= d
                /\ c.reason = "TP" =>
                      /\ c.exit_price = c.pos.tp
                      /\ c.pnl = tp_r_mult * d * c.pos.units
                      /\ 2 * Abs(c.pnl - tp_r_mult * R) <= tp_r_mult * d

\* an SL exit and a TP exit in one call, on a bar that goes beyond the stop,
\* one of them of a size that is not exactly R / d
C9_Witness ==
    /\ AfterUpdateBar
    /\ \E j, k \in 1..Len(last.closed) :
          /\ last.closed[j].reason = "SL"
          /\ last.closed[k].reason = "TP"
          /\ last.closed[j].pos.side = "LONG"
          /\ last.low < last.closed[j].pos.sl
          /\ last.closed[j].pos.units * DistOf(last.closed[j].pos)
                # riskOf[last.closed[j].pos.trade_id]

\* C10: a position exits with reason TIME, at the bar's close, iff neither its
\* stop nor its target is touched by the bar and its bars-held counter after
\* this bar's increment is >= time_stop_bars.
C10_TimeStop ==
    AfterUpdateBar =>
        /\ \A i \in 1..Len(last.before) :
              LET p == last.before[i]
                  timed == /\ ~StopTouched(p, last.high, last.low)
                           /\ ~TargetTouched(p, last.high, last.low)
                           /\ p.bars_held + 1 >= time_stop_bars
              IN  timed <=> (\E j \in RecordsOf(p.trade_id) : last.closed[j].reason = "TIME")
        /\ \A j \in 1..Len(last.closed) :
              last.closed[j].reason = "TIME"
              => /\ last.closed[j].exit_price = last.close
                 /\ last.closed[j].pos.bars_held >= time_stop_bars

\* a TIME exit of a position at its time_stop_bars-th bar, at a close above
\* the bar's low
C10_Witness ==
    /\ AfterUpdateBar
    /\ \E j \in 1..Len(last.closed) :
          /\ last.closed[j].reason = "TIME"
          /\ last.closed[j].pos.bars_held = time_stop_bars
          /\ last.closed[j].exit_price = last.close
          /\ last.low < last.close

(* ------------------------------------------------------------------------ *)
(* Properties of the RiskManager (under SpecRisk)                           *)
(* ------------------------------------------------------------------------ *)

\* the day's drawdown (eq - base) / base is <= -daily_max_loss, for base > 0
AtOrBelowLimit(eq, base) == (eq - base) * DmlDen <= -(DmlNum * base)

\* C5: once halted is true it stays true over every call other than
\* reset_day, also over an update_equity that brings equity back above the
\* drawdown limit.
C5_HaltSticky == [][(halted /\ last'.op # "reset_day") => halted']_vars

\* halted, and update_equity has just brought equity back above the limit
C5_Witness ==
    /\ halted
    /\ last.op = "update_equity"
    /\ ~AtOrBelowLimit(equity, start_equity_day)
    /\ equity > start_equity_day

\* C6: after update_equity with the drawdown at or below the limit (boundary
\* included) halted is true; can_trade returns false and leaves halted true
\* whenever the drawdown is at or below the limit, however equity got there,
\* and returns true exactly when not halted and the drawdown is above it.
C6_DrawdownHalt ==
    /\ (last.op = "update_equity" /\ AtOrBelowLimit(equity, start_equity_day)) => halted
    /\ last.op = "can_trade" =>
          /\ AtOrBelowLimit(equity, start_equity_day) => (~last.ok /\ halted)
          /\ last.ok <=> (~halted /\ ~AtOrBelowLimit(equity, start_equity_day))

\* can_trade called with the drawdown exactly at the limit
C6_Witness ==
    /\ last.op = "can_trade"
    /\ (equity - start_equity_day) * DmlDen = -(DmlNum * start_equity_day)
    /\ ~last.ok
    /\ halted

\* C8: risk_amount returns the current equity times risk_per_trade, whatever
\* update_equity and reset_day calls came before.
C8_RiskAmountCurrent ==
    last.op = "risk_amount" => last.value = RoundDiv(equity * RptNum, RptDen)

\* risk_amount called after the equity moved, the day was reset and the equity
\* moved again
C8_Witness ==
    /\ last.op = "risk_amount"
    /\ equity # starting_equity * FScale
    /\ start_equity_day # starting_equity * FScale
    /\ start_equity_day # equity
    /\ last.value # RoundDiv(starting_equity * FScale * RptNum, RptDen)

\* C23: reset_day sets the daily baseline to the current equity and clears
\* halted, so right after it the drawdown is 0 and can_trade returns true
\* (daily_max_loss > 0), however much was lost on the days before; and
\* update_equity halts exactly when the equity is at or below the limit
\* measured from the day's baseline, wherever the starting equity was.
C23_FreshDay ==
    /\ [](last.op = "reset_day" =>
            /\ start_equity_day = equity
            /\ ~halted
            /\ day_dd(equity, start_equity_day).num = 0
            /\ ~AtOrBelowLimit(equity, start_equity_day))
    /\ [][(last.op = "reset_day" /\ last'.op = "can_trade") => (last'.ok /\ ~halted')]_vars
    /\ [][last'.op = "update_equity" =>
            (halted' <=> (halted \/ AtOrBelowLimit(equity', start_equity_day)))]_vars
    /\ [][(mode = "risk" /\ last'.op = "can_trade") =>
            (last'.ok <=> (~halted /\ ~AtOrBelowLimit(equity, start_equity_day)))]_vars

\* can_trade allows on a day that started 3% under the starting equity
C23_Witness ==
    /\ mode = "risk"
    /\ last.op = "can_trade"
    /\ last.ok
    /\ start_equity_day = 9700 * FScale
    /\ equity = start_equity_day
    /\ AtOrBelowLimit(equity, starting_equity * FScale)

(* ------------------------------------------------------------------------ *)
(* Properties of the orchestration loops (under Spec)                       *)
(* ------------------------------------------------------------------------ *)

InLoop == mode \in {"live", "replay"}

\* trade ids present in the ledger
LedgerIds ==
    UNION {{positions[p][i].trade_id : i \in 1..Len(positions[p])} : p \in PairSet}

\* the loop is about to open with a stop distance <= 0
AbortedOpenStep == InLoop /\ pc.at = "open" /\ SlDist(sig[Pairs[pc.i]].atr14) <= 0

\* C4: an open attempted with ATR <= 0 returns no position and leaves the
\* ledger as it was; in the loops the step leaves ledger, equity, baseline,
\* halt flag and guard unchanged and adds exactly one trade row, closed once
\* with reason NO_ATR and pnl 0, whose id never appears in the ledger.
C4_NoAtr ==
    /\ [](/\ (last.op = "open" /\ SlDist(last.atr) <= 0)
               => (last.pos = <<>> /\ ~last.ok /\ positions[last.pair] = last.before)
          /\ \A id \in 1..Len(trades) :
                trades[id].reason = "NO_ATR"
                => /\ trades[id].pnl = 0
                   /\ trades[id].closes = 1
                   /\ trades[id].size_units = 0
                   /\ id \notin LedgerIds)
    /\ [][AbortedOpenStep =>
            /\ positions' = positions
            /\ equity' = equity
            /\ start_equity_day' = start_equity_day
            /\ halted' = halted
            /\ cg' = cg
            /\ Len(trades') = Len(trades) + 1
            /\ SubSeq(trades', 1, Len(trades)) = trades
            /\ trades'[Len(trades')].reason = "NO_ATR"
            /\ trades'[Len(trades')].pnl = 0
            /\ trades'[Len(trades')].closes = 1
            /\ trades'[Len(trades')].exit_price = latest[Pairs[pc.i]].close]_vars

\* a loop has just aborted an open while another position is in the ledger
C4_Witness ==
    /\ InLoop
    /\ last.op = "open"
    /\ ~last.ok
    /\ last.atr = 0
    /\ trades[Len(trades)].reason = "NO_ATR"
    /\ LedgerIds # {}

\* some pair's ledger grows in this step of a loop
LedgerGrows == InLoop /\ \E p \in PairSet : Len(positions'[p]) > Len(positions[p])

\* C7: can_enter never returns true when can_trade is false (halted, or the
\* day's drawdown at or below the limit), and in both loops a position is
\* appended to the ledger only while not halted and above the limit.
C7_NoEntryWhileHalted ==
    /\ []((last.op = "can_enter" /\ last.ok)
            => (~halted /\ ~AtOrBelowLimit(equity, start_equity_day)))
    /\ [][LedgerGrows => (~halted /\ ~AtOrBelowLimit(equity, start_equity_day))]_vars

\* the live loop, halted by a stop-out, reaches an entry decision with a
\* signal and a free slot
C7_Witness ==
    /\ InLoop
    /\ halted
    /\ pc.at = "decide"
    /\ SideToOpen(Ctx(Pairs[pc.i])) # "NONE"
    /\ total_open(positions) < max_open_positions
    /\ \E id \in 1..Len(trades) : trades[id].reason = "SL"

(* ------------------------------------------------------------------------ *)
(* Properties of positions over a run                                       *)
(* ------------------------------------------------------------------------ *)

\* C11: every trade id has at most one exit record; a position that has
\* exited is not in the ledger, and every update_bar result lists as still
\* open only positions without an exit record and as closed only positions
\* whose exit record is this one.
C11_SingleExit ==
    /\ \A id \in DOMAIN track :
          /\ track[id].exits <= 1
          /\ track[id].exits = 1 => id \notin LedgerIds
    /\ AfterUpdateBar =>
          /\ \A j \in 1..Len(last.still) : track[last.still[j].trade_id].exits = 0
          /\ \A j \in 1..Len(last.closed) : track[last.closed[j].pos.trade_id].exits = 1

\* an update_bar that closes one position of a pair after an earlier call
\* already closed another
C11_Witness ==
    /\ AfterUpdateBar
    /\ mode = "exec"
    /\ Len(last.closed) = 1
    /\ \E id \in DOMAIN track :
          /\ track[id].exits = 1
          /\ id # last.closed[1].pos.trade_id

\* the terms a position is opened with
SameTerms(p, q) ==
    /\ p.trade_id = q.trade_id /\ p.pair = q.pair /\ p.entry_ts = q.entry_ts
    /\ p.side = q.side /\ p.entry_price = q.entry_price /\ p.units = q.units
    /\ p.sl = q.sl /\ p.tp = q.tp

\* C12: every position in the ledger has size > 0, and no step changes the
\* pair, side, entry, size, stop or target of a position that stays in the
\* ledger; its bars-held counter changes only by +1 and only in an
\* update_bar of its own pair.
C12_Immutable ==
    /\ [](\A pair \in PairSet : \A i \in 1..Len(positions[pair]) :
             positions[pair][i].units > 0)
    /\ [][\A pair \in PairSet : \A i \in 1..Len(positions'[pair]) :
             \A pa \in PairSet : \A k \in 1..Len(positions[pa]) :
                 LET p == positions[pa][k]
                     q == positions'[pair][i]
                 IN  p.trade_id = q.trade_id =>
                        /\ pa = pair
                        /\ SameTerms(p, q)
                        /\ IF last'.op = "update_bar" /\ last'.pair = pair
                           THEN q.bars_held = p.bars_held + 1
                           ELSE q.bars_held = p.bars_held]_vars

\* update_bar has advanced a pair and left a position open there while the
\* other pair holds a position that was not advanced
C12_Witness ==
    /\ AfterUpdateBar
    /\ \E j \in 1..Len(last.still) : last.still[j].bars_held = 1
    /\ \E pa \in PairSet \ {last.pair} : \E k \in 1..Len(positions[pa]) :
          positions[pa][k].bars_held = 0

(* ---------------- Properties of the EntryClusterGuard ------------------ *)

\* a direct call of can_enter on the guard has just returned
AfterGuardCanEnter == mode = "guard" /\ last.op = "can_enter"

\* a direct call of on_trade_closed on the guard has just returned
AfterGuardClose == mode = "guard" /\ last.op = "on_trade_closed"

\* C13: with the guard enabled and a last trade bar L recorded for the pair,
\* can_enter at bar index b is denied whenever b - L <= cooldown_bars, and for
\* b - L > cooldown_bars it is not denied by the cooldown: it is allowed unless
\* the pause or the same-side limit denies it. cooldown_bars is 2 here, so L+2
\* is denied and L+3 is past the cooldown.
C13_Cooldown ==
    (AfterGuardCanEnter /\ cluster_enabled /\ last.pair \in DOMAIN cg.last_trade_bar) =>
        LET d == last.bar_index - cg.last_trade_bar[last.pair]
        IN  /\ d <= cooldown_bars => ~last.ok
            /\ d > cooldown_bars => last.reason # "cooldown_active"
            /\ (d > cooldown_bars /\ ~last.ok) =>
                   last.reason \in {"paused_until_bar", "same_side_cluster"}
            /\ (d = cooldown_bars /\ ~(last.bar_index < Get(cg.pause_until_bar, last.pair, 0))) =>
                   last.reason = "cooldown_active"

\* an attempt at L + cooldown_bars, outside any pause, denied by the cooldown
C13_Witness ==
    /\ AfterGuardCanEnter
    /\ last.pair \in DOMAIN cg.last_trade_bar
    /\ last.bar_index = cg.last_trade_bar[last.pair] + cooldown_bars
    /\ ~last.ok
    /\ last.reason = "cooldown_active"

\* the pair is paused at the bar: a pause is recorded and ends after the bar
Paused(g, pair, bar_index) ==
    pair \in DOMAIN g.pause_until_bar /\ bar_index < g.pause_until_bar[pair]

\* C14: a losing close at bar b that brings the pair's loss streak to
\* block_after_losses pauses the pair until b + pause_bars_after_loss_streak;
\* no later close on the pair, won or lost, shortens or removes the pause;
\* every can_enter on the pair at a bar before the end of the pause is denied;
\* a close on one pair leaves the pause of every other pair as it was.
C14_Pause ==
    /\ [](AfterGuardCanEnter /\ Paused(cg, last.pair, last.bar_index) => ~last.ok)
    /\ [][(mode = "guard" /\ last'.op = "on_trade_closed") =>
            /\ (last'.value < 0 /\ Get(cg.loss_streak, last'.pair, 0) + 1 >= block_after_losses) =>
                   /\ last'.pair \in DOMAIN cg'.pause_until_bar
                   /\ cg'.pause_until_bar[last'.pair] =
                          last'.bar_index + pause_bars_after_loss_streak
            /\ \A q \in PairSet :
                   q # last'.pair =>
                       /\ (q \in DOMAIN cg'.pause_until_bar) = (q \in DOMAIN cg.pause_until_bar)
                       /\ Get(cg'.pause_until_bar, q, 0) = Get(cg.pause_until_bar, q, 0)]_vars
    /\ [][mode = "guard" =>
            \A q \in DOMAIN cg.pause_until_bar :
                /\ q \in DOMAIN cg'.pause_until_bar
                /\ cg'.pause_until_bar[q] >= cg.pause_until_bar[q]]_vars

\* an entry denied by the pause after the losing streak was ended by a
\* non-losing close
C14_Witness ==
    /\ AfterGuardCanEnter
    /\ Paused(cg, last.pair, last.bar_index)
    /\ Get(cg.loss_streak, last.pair, 0) = 0
    /\ ~last.ok
    /\ last.reason = "paused_until_bar"

\* C15: on any one pair the guard never admits more than max_same_side
\* consecutive entries of one side within window_bars bars, for every sequence
\* of can_enter and on_trade_closed calls, also when no trade has closed yet
\* or the last closed trade had the other side.
C15_SameSideLimit ==
    mode = "guard" => \A pair \in PairSet : guardLog.streak[pair].n <= max_same_side

\* more than max_same_side entries of one side admitted in a row on a pair
\* no trade of which has closed yet
C15_Witness ==
    /\ mode = "guard"
    /\ \E pair \in PairSet :
           /\ pair \notin DOMAIN cg.last_side
           /\ guardLog.streak[pair].n > max_same_side
           /\ Get(cg.same_side_count, pair, 0) = 1

\* the pause of the pair is the same in both guards
SamePause(g, h, pair) ==
    /\ (pair \in DOMAIN g.pause_until_bar) = (pair \in DOMAIN h.pause_until_bar)
    /\ Get(g.pause_until_bar, pair, 0) = Get(h.pause_until_bar, pair, 0)

\* C16: on_trade_closed with pnl < 0 adds one to the pair's loss streak and,
\* when the streak is then >= block_after_losses, sets the end of the pause to
\* bar_index + pause_bars_after_loss_streak; with pnl >= 0, exactly 0 included,
\* it sets the streak to 0 and leaves the end of the pause unchanged. In every
\* state the loss streak equals the number of losing closes since the pair's
\* last non-losing close.
C16_LossStreak ==
    /\ [](mode = "guard" =>
            \A pair \in PairSet : Get(cg.loss_streak, pair, 0) = guardLog.lossRun[pair])
    /\ [][(mode = "guard" /\ last'.op = "on_trade_closed") =>
            LET pair == last'.pair
                n == Get(cg.loss_streak, pair, 0) + 1
            IN  IF last'.value < 0
                THEN /\ Get(cg'.loss_streak, pair, 0) = n
                     /\ IF n >= block_after_losses
                        THEN /\ pair \in DOMAIN cg'.pause_until_bar
                             /\ cg'.pause_until_bar[pair] =
                                    last'.bar_index + pause_bars_after_loss_streak
                        ELSE SamePause(cg, cg', pair)
                ELSE /\ pair \in DOMAIN cg'.loss_streak
                     /\ cg'.loss_streak[pair] = 0
                     /\ SamePause(cg, cg', pair)]_vars

\* a close with pnl exactly 0 during a pause: the streak is back at 0 and the
\* pause is still recorded
C16_Witness ==
    /\ AfterGuardClose
    /\ last.value = 0
    /\ last.pair \in DOMAIN cg.pause_until_bar
    /\ last.bar_index < cg.pause_until_bar[last.pair]
    /\ cg.loss_streak[last.pair] = 0
    /\ guardLog.lossRun[last.pair] = 0

(* ------------------- Properties of the order within a tick -------------- *)

\* C17: within one iteration of the live loop and of the replay loop, every
\* advance of open positions (update_bar, with its closures, equity updates
\* and guard notifications) is applied before any entry evaluation of that
\* iteration on any pair: no update_bar advances a position once an entry has
\* been evaluated.
C17_AdvanceBeforeEntries ==
    (InLoop /\ AfterUpdateBar /\ last.before # <<>>) => ~evaluated

\* the live loop advances a position of the second pair after it has
\* evaluated an entry for the first
C17_Witness ==
    /\ mode = "live"
    /\ AfterUpdateBar
    /\ last.pair = Pairs[2]
    /\ last.before # <<>>
    /\ evaluated

\* C18: in the live loop, polls without a new bar included, and in the replay
\* loop, update_bar is never given a position together with the bar it was
\* opened on: every position it evaluates was opened on an earlier bar.
C18_NeverOnEntryBar ==
    (InLoop /\ AfterUpdateBar) =>
        \A i \in 1..Len(last.before) : last.before[i].entry_ts < last.ts

\* the live loop evaluates a position on its entry bar and closes it there
C18_Witness ==
    /\ mode = "live"
    /\ AfterUpdateBar
    /\ \E j \in 1..Len(last.closed) :
           /\ last.closed[j].pos.entry_ts = last.ts
           /\ last.closed[j].reason \in {"SL", "TP"}

\* C19: in both loops the bars-held counter of a position equals the number
\* of distinct bars of its pair evaluated since it was opened: 0 at the open,
\* one more per bar, never two for the same bar.
C19_BarsHeld ==
    InLoop =>
        /\ \A pair \in PairSet : \A i \in 1..Len(positions[pair]) :
              positions[pair][i].bars_held =
                  Cardinality(track[positions[pair][i].trade_id].bars)
        /\ AfterUpdateBar =>
              \A j \in 1..Len(last.closed) :
                  last.closed[j].pos.bars_held =
                      Cardinality(track[last.closed[j].pos.trade_id].bars)

\* the live loop has counted one bar twice for a position
C19_Witness ==
    /\ mode = "live"
    /\ AfterUpdateBar
    /\ \E j \in 1..Len(last.closed) :
           /\ last.closed[j].pos.bars_held = 2
           /\ track[last.closed[j].pos.trade_id].bars = {last.ts}

\* C20: total_open() is the number of positions in the ledger over all pairs,
\* and in the live loop and in the replay loop it never exceeds
\* max_open_positions.
C20_OpenCap ==
    /\ total_open(positions) = Cardinality(LedgerIds)
    /\ InLoop => total_open(positions) <= max_open_positions

\* the replay loop holds more than max_open_positions positions
C20_Witness ==
    /\ mode = "replay"
    /\ last.op = "open"
    /\ total_open(positions) = max_open_positions + 1
    /\ total_open(positions) = Cardinality(LedgerIds)

(* --------------- Properties of the entry decision and the day ----------- *)

\* should_open_long_v2 and should_open_short_v2 have just been called on the
\* same arguments
AfterShouldOpen == mode = "filter" /\ last.op = "should_open"

\* C21: in each iteration of a loop at most one position is opened per pair,
\* on the side the if / elif selects (long first, short only when long is not
\* selected), so never a LONG and a SHORT of one pair in one iteration; and
\* should_open_long_v2 and should_open_short_v2 are never both true on the
\* same arguments.
C21_OneSide ==
    /\ InLoop =>
          \A a, b \in DOMAIN track :
              (a # b /\ trades[a].pair = trades[b].pair) => track[a].iter # track[b].iter
    /\ (InLoop /\ last.op = "open") =>
          /\ last.side \in {"LONG", "SHORT"}
          /\ last.side = SideToOpen(Ctx(last.pair))
    /\ AfterShouldOpen => ~(last.out.long /\ last.out.short)

\* a pair holds a LONG and a SHORT, opened in different iterations
C21_Witness ==
    /\ InLoop
    /\ last.op = "open"
    /\ \E i, k \in 1..Len(positions[last.pair]) :
           /\ positions[last.pair][i].side = "LONG"
           /\ positions[last.pair][k].side = "SHORT"
           /\ track[positions[last.pair][i].trade_id].iter
                  # track[positions[last.pair][k].trade_id].iter

\* the date the rollover block of the iteration now starting compares: the
\* live loop takes it from the latest bar of the first pair, the replay loop
\* from the timestamp of the timeline
DayOfTick == IF mode = "live" THEN latest'[Pairs[1]].day ELSE today'

\* a step that is the head of a loop iteration
TickStep == InLoop /\ pc.at = "tick" /\ pc'.at = "advance"

\* C22: in both loops reset_day is called once when the first day is
\* initialized, once whenever the date of the latest bar differs from the
\* date seen before, and not at all on an iteration whose date equals it; the
\* reset sets the baseline to the equity and clears the halt; it comes before
\* any advance or entry of the iteration, and no other step touches the date
\* seen or the baseline.
C22_ResetPerRollover ==
    /\ [][TickStep =>
            /\ last'.op = "rollover"
            /\ last'.value = IF last_day = 0 \/ DayOfTick # last_day THEN 1 ELSE 0
            /\ last_day' = DayOfTick
            /\ IF last'.value = 1
               THEN start_equity_day' = equity /\ ~halted'
               ELSE UNCHANGED <<start_equity_day, halted>>
            /\ UNCHANGED <<positions, trades, equity, cg>>]_vars
    /\ [][(InLoop /\ ~TickStep) => UNCHANGED <<last_day, start_equity_day>>]_vars

\* a rollover after the first day: the date changed, one reset, the halt of
\* the day before cleared
C22_Witness ==
    /\ InLoop
    /\ last.op = "rollover"
    /\ last.value = 1
    /\ tick = 2
    /\ last_day = 2
    /\ start_equity_day < starting_equity * FScale
    /\ ~halted

(* ------------------ Properties of the loops under faults ---------------- *)

\* a fault has just been raised inside the try block of the live loop
AfterFaultRaised == mode = "faulty" /\ last.op = "fault"

\* the index of a pair in the configured list
PairIndex(pair) == CHOOSE i \in 1..Len(Pairs) : Pairs[i] = pair

\* C24: when the pipeline of one pair raises during an iteration of the live
\* loop, the iteration goes on with the pairs after it: they are still
\* advanced and evaluated for entry in that iteration.
C24_FaultIsolated ==
    (AfterFaultRaised /\ PairIndex(last.pair) < Len(Pairs)) =>
        pc = At("advance", PairIndex(last.pair) + 1)

\* a fault on the first pair ends the iteration while the second pair holds a
\* position that this iteration has not advanced
C24_Witness ==
    /\ AfterFaultRaised
    /\ last.pair = Pairs[1]
    /\ pc = At("tick", 0)
    /\ \E i \in 1..Len(positions[Pairs[2]]) :
           /\ positions[Pairs[2]][i].entry_ts < latest[Pairs[2]].ts
           /\ latest[Pairs[2]].ts \notin track[positions[Pairs[2]][i].trade_id].bars

\* C25: an open is all or nothing across ledger and persistence: when the
\* reserving insert or the UPDATE of size, stop and target fails, the position
\* is not in the ledger afterwards; and every position in the ledger has a
\* trade row carrying its size, stop and target.
C25_OpenAtomic ==
    mode \in LoopModes =>
        /\ \A pair \in PairSet : \A i \in 1..Len(positions[pair]) :
              LET p == positions[pair][i]
              IN  /\ p.trade_id \in 1..Len(trades)
                  /\ trades[p.trade_id].size_units = p.units
                  /\ trades[p.trade_id].sl_price = p.sl
                  /\ trades[p.trade_id].tp_price = p.tp
        /\ (AfterFaultRaised /\ last.reason \in {"insert_trade_open", "backfill"}) =>
              positions[last.pair] = last.before

\* the UPDATE raised: the position is in the ledger and its row still has
\* size, stop and target 0
C25_Witness ==
    /\ AfterFaultRaised
    /\ last.reason = "backfill"
    /\ \E i \in 1..Len(positions[last.pair]) :
           LET p == positions[last.pair][i]
           IN  /\ p.trade_id = last.pos[1].trade_id
               /\ p.units > 0
               /\ trades[p.trade_id].size_units = 0
               /\ trades[p.trade_id].sl_price = 0

\* the sum of the pnl of a list of exit records
SumPnl(closed) == SumSeq([j \in 1..Len(closed) |-> closed[j].pnl])

\* C26: a fault during an iteration never loses a closure: every position
\* update_bar removes from the ledger has its exit record persisted, its pnl
\* added to the equity and the guard notified, also when close_trade raises
\* while the closures of the bar are processed; and after a fault the live
\* loop goes on to its next iteration.
C26_NoLostClosure ==
    /\ [](mode \in LoopModes =>
            \A id \in DOMAIN track :
                track[id].exits >= 1 => (id \in 1..Len(trades) /\ trades[id].closes >= 1))
    /\ [][(mode \in LoopModes /\ last' # last /\ last'.op \in {"update_bar", "fault"}
           /\ last'.closed # <<>>) =>
            /\ equity' = equity + SumPnl(last'.closed)
            /\ Get(cg'.last_trade_bar, last'.pair, 0) = BarIdx(mode, nbars[last'.pair])
            /\ Get(cg'.last_side, last'.pair, "") =
                   last'.closed[Len(last'.closed)].pos.side]_vars
    /\ [](AfterFaultRaised => pc = At("tick", 0))

\* close_trade raised for the first exit record of a bar: the position has
\* left the ledger, its row has no exit and the equity has not moved
C26_Witness ==
    /\ AfterFaultRaised
    /\ last.reason = "close_trade"
    /\ last.value = 1
    /\ last.closed[1].pnl # 0
    /\ last.closed[1].pos.trade_id \notin LedgerIds
    /\ trades[last.closed[1].pos.trade_id].closes = 0
    /\ track[last.closed[1].pos.trade_id].exits = 1

(* ------------------- Properties of the bar index ----------------------- *)

\* C27: the bar index the loops hand to the guard for a pair grows by one with
\* every new bar of that pair, in the live loop as in the replay loop, however
\* long the run (so that a cooldown or a pause, which are measured in bar
\* indices, ends once enough new bars have arrived).
C27_BarIndexGrows ==
    [][InLoop =>
         \A pair \in PairSet :
             nbars'[pair] = nbars[pair] + 1 =>
                 BarIdx(mode, nbars'[pair]) = BarIdx(mode, nbars[pair]) + 1]_vars

\* the live loop has stored more candles than it loads: a new bar arrived and
\* the bar index it passes is still candle_limit
C27_Witness ==
    /\ mode = "live"
    /\ \E pair \in PairSet :
           /\ nbars[pair] = candle_limit + 1
           /\ BarIdx(mode, nbars[pair]) = candle_limit
           /\ last.op = "can_enter"
           /\ last.pair = pair
           /\ last.bar_index = candle_limit

(* ----------------- Properties of the order of the pairs ----------------- *)

\* a ledger list without the trade ids, which number the opens in the order
\* they were made
NoIds(ps) == [i \in 1..Len(ps) |-> [ps[i] EXCEPT !.trade_id = 0]]

\* what an iteration leaves behind, up to the numbering of the trades: the
\* open positions per pair, the trade rows (opened and closed positions),
\* equity, halted flag and guard
Outcome(st) ==
    [positions |-> [p \in PairSet |-> NoIds(st.positions[p])],
     rows |-> {st.trades[i] : i \in 1..Len(st.trades)},
     equity |-> st.equity, halted |-> st.halted, cg |-> st.cg]

\* an iteration is about to process its pairs
IterationStart == InLoop /\ pc = At("advance", 1)

\* C28: the outcome of an iteration does not depend on the order of the pairs:
\* for the same bars and signals the configured order and its reverse give the
\* same opened and closed positions, the same equity and halted flag and the
\* same guard state.
C28_OrderIndependent ==
    IterationStart => Outcome(Iteration(Cur, Pairs)) = Outcome(Iteration(Cur, Reverse(Pairs)))

\* the replay loop with a target hit on one pair and a stop-out on the other:
\* the halted flag after the iteration depends on which closure comes first
C28_Witness ==
    /\ mode = "replay"
    /\ IterationStart
    /\ ~Iteration(Cur, Pairs).halted
    /\ Iteration(Cur, Reverse(Pairs)).halted
    /\ Iteration(Cur, Pairs).equity = Iteration(Cur, Reverse(Pairs)).equity

(* --------------------- Properties of the RegimeFilter ------------------ *)

\* RegimeFilter.decide has just returned
AfterRegimeDecide == mode = "filter" /\ last.op = "regime_decide"

\* the one-bar slope of the call: ema_trend - ema_trend_prev, a missing
\* previous value standing for no slope
SlopeOfCall ==
    LET t == SafeFloat(last.args.ema_trend)
    IN  IF last.args.ema_trend_prev.kind = "none" THEN 0
        ELSE t - SafeFloat(last.args.ema_trend_prev)

\* no ADX supplied, or ADX >= adx_min_trend
AdxOkOfCall ==
    last.args.adx.kind = "none" \/ SafeFloat(last.args.adx) >= last.args.cfg.adx_min_trend

\* in range regime both sides are denied unless allow_range_trades is set
RangeDenies ==
    (last.out.regime = "range" /\ ~last.args.cfg.allow_range_trades) =>
        (~last.out.allow_long /\ ~last.out.allow_short)

\* C29 as stated: when enabled, the regime is trend exactly when
\* |slope| >= slope_min_atr_frac * atr and the ADX condition holds, otherwise
\* range, for every atr, atr <= 0 included; in range regime both sides are
\* denied unless allow_range_trades is set.
C29_AsStated ==
    (AfterRegimeDecide /\ last.args.cfg.enabled /\ last.args.atr.kind = "num") =>
        /\ last.out.regime \in {"trend", "range"}
        /\ last.out.regime = "trend" <=>
              (/\ Abs(SlopeOfCall) * last.args.cfg.slope_den
                      >= last.args.cfg.slope_num * last.args.atr.v
               /\ AdxOkOfCall)
        /\ RangeDenies

\* C29 amended: when enabled, the regime is trend exactly when
\* |slope| >= slope_min_atr_frac * max(atr, 1e-9) and the ADX condition holds,
\* otherwise range; an atr that is <= 0, missing or not a number counts as
\* 1e-9, so that the regime is then trend only for a nonzero slope; in range
\* regime both sides are denied unless allow_range_trades is set.
C29_RegimeClamped ==
    (AfterRegimeDecide /\ last.args.cfg.enabled) =>
        /\ last.out.regime \in {"trend", "range"}
        /\ last.out.regime = "trend" <=>
              (/\ IF last.args.atr.kind = "num" /\ last.args.atr.v > 0
                  THEN Abs(SlopeOfCall) * last.args.cfg.slope_den
                           >= last.args.cfg.slope_num * last.args.atr.v
                  ELSE SlopeOfCall # 0
               /\ AdxOkOfCall)
        /\ RangeDenies

\* a call with atr <= 0 and no slope: range, both sides denied
C29_Witness ==
    /\ AfterRegimeDecide
    /\ last.args.cfg.enabled
    /\ ~last.args.cfg.allow_range_trades
    /\ last.args.atr.kind = "num"
    /\ last.args.atr.v <= 0
    /\ SlopeOfCall = 0
    /\ AdxOkOfCall
    /\ last.args.ema_diff = Num(1)
    /\ last.out.regime = "range"
    /\ ~last.out.allow_long

\* the direction the decision is taken on: the EMA-difference if it is
\* supplied, price - ema_trend if it is not
DirectionOfCall ==
    IF last.args.ema_diff.kind # "none" THEN SafeFloat(last.args.ema_diff)
    ELSE SafeFloat(last.args.price) - SafeFloat(last.args.ema_trend)

\* C30: in trend regime and when the regime filter is disabled, decide (called
\* with a numeric price) allows long exactly when direction > 0 and short
\* exactly when direction < 0, direction being the EMA-difference if supplied
\* and price - ema_trend if not; it never allows both sides at once.
C30_Direction ==
    (/\ AfterRegimeDecide
     /\ last.args.price.kind = "num"
     /\ ~last.args.cfg.enabled \/ last.out.regime = "trend") =>
        /\ last.out.allow_long = (DirectionOfCall > 0)
        /\ last.out.allow_short = (DirectionOfCall < 0)
        /\ ~(last.out.allow_long /\ last.out.allow_short)

\* a disabled filter called without an EMA-difference and with the price above
\* the trend baseline
C30_Witness ==
    /\ AfterRegimeDecide
    /\ ~last.args.cfg.enabled
    /\ last.args.ema_diff.kind = "none"
    /\ last.args.price.kind = "num"
    /\ SafeFloat(last.args.price) > SafeFloat(last.args.ema_trend)

(* ------------- Properties of the VolatilityFilter and TrendGuard ------- *)

\* VolatilityFilter.decide has just returned
AfterVolDecide == mode = "filter" /\ last.op = "vol_decide"

\* the spike test of the call: blocking is on, a z-score is supplied and it
\* is at or above the threshold (a NaN z-score counting as 0)
SpikeOfCall ==
    /\ last.args.cfg.block_on_spike
    /\ last.args.vol_z.kind # "none"
    /\ SafeFloat(last.args.vol_z) >= last.args.cfg.vol_spike_z

\* C31: when enabled, VolatilityFilter.decide denies iff atr < floor, or
\* atr > ceiling, or (spike blocking is on, a z-score is supplied and
\* z >= spike threshold), a missing or not-a-number atr or z-score counting as
\* 0 in these comparisons; when disabled it always allows.
C31_VolDenies ==
    AfterVolDecide =>
        IF last.args.cfg.enabled
        THEN ~last.out.allow <=>
                \/ SafeFloat(last.args.atr) < last.args.cfg.atr_min
                \/ SafeFloat(last.args.atr) > last.args.cfg.atr_max
                \/ SpikeOfCall
        ELSE last.out.allow

\* a call denied by the spike test alone, with the z-score at the threshold
C31_Witness ==
    /\ AfterVolDecide
    /\ last.args.cfg.enabled
    /\ last.args.atr = Num(3)
    /\ last.args.vol_z = Num(vol_spike_z)
    /\ SpikeOfCall
    /\ ~last.out.allow

\* TrendGuard.decide has just returned
AfterTrendDecide == mode = "filter" /\ last.op = "trend_decide"

\* the trend guard of the call is enabled with both direction requirements on
BothRequired(cfg) == cfg.enabled /\ cfg.req_above_for_long /\ cfg.req_below_for_short

\* price and trend baseline of the call are numbers
NumericCall == last.args.price.kind = "num" /\ last.args.ema_trend.kind = "num"

\* C32: when enabled with both direction requirements on, TrendGuard.decide
\* (on a numeric price and baseline) denies long iff price <= baseline and
\* denies short iff price >= baseline, so it never allows both sides and
\* allows neither when price equals the baseline; an entry admitted by
\* should_open_long_v2 under such a guard has price > baseline and
\* EMA-difference > 0, one admitted by should_open_short_v2 price < baseline
\* and EMA-difference < 0.
C32_TrendGuard ==
    /\ (AfterTrendDecide /\ BothRequired(last.args.cfg) /\ NumericCall) =>
          /\ ~last.out.allow_long <=> last.args.price.v <= last.args.ema_trend.v
          /\ ~last.out.allow_short <=> last.args.price.v >= last.args.ema_trend.v
          /\ ~(last.out.allow_long /\ last.out.allow_short)
          /\ last.args.price.v = last.args.ema_trend.v =>
                (~last.out.allow_long /\ ~last.out.allow_short)
    /\ (AfterShouldOpen /\ BothRequired(last.args.cfg.guards.counter_trend)
                        /\ NumericCall) =>
          /\ last.out.long =>
                /\ last.args.price.v > last.args.ema_trend.v
                /\ RawGt(last.args.ema_diff, 0)
          /\ last.out.short =>
                /\ last.args.price.v < last.args.ema_trend.v
                /\ RawLt(last.args.ema_diff, 0)

\* a guard call with the price on the baseline, denying both sides
C32_Witness ==
    /\ AfterTrendDecide
    /\ BothRequired(last.args.cfg)
    /\ NumericCall
    /\ last.args.price.v = last.args.ema_trend.v
    /\ ~last.out.allow_long
    /\ ~last.out.allow_short

(* ------------------ Properties of the admission pipeline --------------- *)

\* should_open_long_v2 on the context of the pair: base signal, regime filter,
\* volatility filter and trend guard all allow a LONG
LongOk(pair) ==
    LET c == Ctx(pair)
    IN  should_open_long_v2(Num(c.p_up), Num(c.ema_diff), prob_threshold, Num(c.close),
                            Num(c.ema_trend), Num(c.ema_trend_prev), Num(c.atr14), None,
                            Num(c.vol_z), Cfg)

\* the same for a SHORT
ShortOk(pair) ==
    LET c == Ctx(pair)
    IN  should_open_short_v2(Num(c.p_up), Num(c.ema_diff), prob_threshold, Num(c.close),
                             Num(c.ema_trend), Num(c.ema_trend_prev), Num(c.atr14), None,
                             Num(c.vol_z), Cfg)

\* rm.can_trade() would allow
TradeOk == CanTrade(halted, equity, start_equity_day).ok

\* the live loop's position cap denies the evaluation
Capped == Live /\ total_open(positions) >= max_open_positions

\* C33: an entry is opened only if base signal, regime filter, volatility
\* filter, trend guard, can_trade and the clustered-entry guard all allow; the
\* guard is consulted last, so an evaluation denied by an earlier check, by
\* the halt or by the position cap (the live loop's per pair, the replay
\* loop's per timestamp) leaves the guard state unchanged, as does a direct
\* rm.can_enter call that can_trade denies.
C33_GuardLast ==
    [][/\ (InLoop /\ pc.at = "decide") =>
            LET pair == Pairs[pc.i]
                side == IF LongOk(pair) THEN "LONG" ELSE "SHORT"
            IN  /\ pc'.at = "open" =>
                      /\ LongOk(pair) \/ ShortOk(pair)
                      /\ TradeOk
                      /\ ~Capped
                      /\ ClusterCanEnter(cg, pair, side,
                                         BarIdx(mode, nbars[pair])).allow
                      /\ pend' = side
                /\ (~(LongOk(pair) \/ ShortOk(pair)) \/ ~TradeOk \/ Capped) =>
                      (cg' = cg /\ pc'.at # "open")
       /\ (InLoop /\ pc.at = "gate") => cg' = cg
       /\ (mode = "risk" /\ last'.op = "can_enter" /\ ~TradeOk) =>
            (cg' = cg /\ ~last'.ok)
      ]_vars

\* an evaluation about to be denied by the halt although the signal allows a
\* side and the guard already holds state of a closed trade
C33_Witness ==
    /\ InLoop
    /\ pc.at = "decide"
    /\ LongOk(Pairs[pc.i]) \/ ShortOk(Pairs[pc.i])
    /\ ~TradeOk
    /\ cg # NewGuard

(* ------------------------ Isolation of the pairs ----------------------- *)

\* the six guard fields of one pair: for each dict, the value stored under
\* the pair, if any
GuardFields ==
    {"last_trade_bar", "last_side", "same_side_count", "same_side_window_start",
     "loss_streak", "pause_until_bar"}

GuardSlice(g, pair) ==
    [f \in GuardFields |-> IF pair \in DOMAIN g[f] THEN <<g[f][pair]>> ELSE <<>>]

\* the operations that are called for one pair
PairOps == {"open", "update_bar", "can_enter", "on_trade_closed"}

\* C34: an operation on one pair (update_bar, open_long / open_short,
\* can_enter, on_trade_closed, and in the loops update_bar together with the
\* closures it feeds to the guard) leaves the ledger list of every other pair,
\* bars-held included, and the six guard fields of every other pair unchanged.
C34_OtherPairsUntouched ==
    [][(last'.op \in PairOps /\ last'.pair \in PairSet) =>
          \A other \in PairSet \ {last'.pair} :
              /\ positions'[other] = positions[other]
              /\ GuardSlice(cg', other) = GuardSlice(cg, other)
      ]_vars

\* an update_bar that closed a position of one pair while another pair holds
\* a position that has been advanced before and has guard state of its own
C34_Witness ==
    /\ last.op = "update_bar"
    /\ last.closed # <<>>
    /\ \E other \in PairSet \ {last.pair} :
          /\ positions[other] # <<>>
          /\ other \in DOMAIN cg.same_side_count

(* ---------------------- Properties of the accounting ------------------- *)

\* the pnl of all exit records so far, as persisted with close_trade
RealizedPnl == SumSeq([i \in 1..Len(trades) |-> trades[i].pnl])

C36_BoundedHolding ==
    /\ [](AfterUpdateBar =>
            /\ positions[last.pair] = last.still
            /\ \A i \in 1..Len(last.still) : last.still[i].bars_held < time_stop_bars
            /\ \A i \in 1..Len(last.before) :
                  last.before[i].bars_held + 1 >= time_stop_bars =>
                      RecordsOf(last.before[i].trade_id) # {})
    /\ \A id \in 1..MaxTrades : (id \in LedgerIds) ~> (id \notin LedgerIds)

\* a position that stayed open through an update_bar that touched neither of
\* its levels, one bar short of the time stop
C36_Witness ==
    /\ AfterUpdateBar
    /\ mode = "hold"
    /\ \E i \in 1..Len(last.still) :
          /\ last.still[i].bars_held = time_stop_bars - 1
          /\ last.still[i].trade_id \in LedgerIds

(* ---------------------- Properties of the realized pnl ----------------- *)

\* C37 as stated: on bars with low <= close <= high every exit record's pnl
\* lies between -R and tp_r_mult * R, R being the risk amount the position was
\* opened with.
C37_AsStated ==
    (AfterUpdateBar /\ last.low <= last.close /\ last.close <= last.high) =>
        \A j \in 1..Len(last.closed) :
            LET c == last.closed[j]
                R == riskOf[c.pos.trade_id]
            IN  -R <= c.pnl /\ c.pnl <= tp_r_mult * R

\* C37 amended: on bars with low <= close <= high every exit record's pnl lies
\* between the pnl of a stop-out and the pnl of a target hit of its position,
\* -(d * size) and tp_r_mult * d * size, which bound the loss and the gain of
\* a TIME exit; these two are -R and tp_r_mult * R only up to the rounding of
\* size = R / d.
C37_WithinLevelPnl ==
    (AfterUpdateBar /\ last.low <= last.close /\ last.close <= last.high) =>
        \A j \in 1..Len(last.closed) :
            LET c == last.closed[j]
                R == riskOf[c.pos.trade_id]
                d == DistOf(c.pos)
            IN  /\ -(d * c.pos.units) <= c.pnl
                /\ c.pnl <= tp_r_mult * d * c.pos.units
                /\ 2 * Abs(d * c.pos.units - R) <= d
                /\ c.reason = "TIME" =>
                      /\ -(d * c.pos.units) < c.pnl
                      /\ c.pnl < tp_r_mult * d * c.pos.units

\* one call with a TIME exit at a loss and a stop-out that lost more than R
C37_Witness ==
    /\ AfterUpdateBar
    /\ \E j, k \in 1..Len(last.closed) :
          /\ last.closed[j].reason = "TIME"
          /\ last.closed[j].pnl < 0
          /\ last.closed[k].reason = "SL"
          /\ last.closed[k].pnl < -riskOf[last.closed[k].pos.trade_id]

(* ------------------- Frame of the guard's operations ------------------- *)

\* the fields only on_trade_closed writes
ClosedFields(g) ==
    <<g.last_trade_bar, g.last_side, g.loss_streak, g.pause_until_bar>>

\* the fields only the same-side check of can_enter writes
StreakFields(g) == <<g.same_side_count, g.same_side_window_start>>

\* C38: can_enter never changes last trade bar, last side, loss streak or
\* paused-until, and when it denies because of pause or cooldown it leaves
\* the streak count and window start unchanged too; on_trade_closed never
\* changes the streak count or window start; these two change only in
\* can_enter calls that reach the same-side check.
C38_GuardFrame ==
    [][mode = "guard" =>
          /\ last'.op = "can_enter" =>
                /\ ClosedFields(cg') = ClosedFields(cg)
                /\ last'.reason \in {"paused_until_bar", "cooldown_active"} =>
                      StreakFields(cg') = StreakFields(cg)
          /\ last'.op = "on_trade_closed" => StreakFields(cg') = StreakFields(cg)
          /\ StreakFields(cg') # StreakFields(cg) =>
                /\ last'.op = "can_enter"
                /\ last'.reason \in {"cluster_ok", "same_side_cluster"}
      ]_vars

\* a can_enter denied by the cooldown on a pair whose streak fields are set
C38_Witness ==
    /\ AfterGuardCanEnter
    /\ last.reason = "cooldown_active"
    /\ last.pair \in DOMAIN cg.same_side_count
    /\ last.pair \in DOMAIN cg.same_side_window_start
    /\ cg.same_side_count[last.pair] > 1

(* ------------------------- Frame of the day reset ---------------------- *)

\* the step is a reset_day: a direct call, or the rollover block of a loop
\* when it resets
ResetStep ==
    \/ mode = "risk" /\ last'.op = "reset_day"
    \/ InLoop /\ pc.at = "tick" /\ last'.op = "rollover" /\ last'.value > 0

\* C39: reset_day changes only the daily baseline and the halted flag: the
\* equity, the ledger and all clustered-entry guard state are unchanged, so
\* that an entry the guard denies (cooldown, loss-streak pause) before a direct
\* reset_day is still denied after it; update_equity never changes the daily
\* baseline, which changes in a reset_day only.
C39_ResetFrame ==
    [][/\ ResetStep =>
            /\ equity' = equity
            /\ positions' = positions
            /\ cg' = cg
            /\ start_equity_day' = equity
            /\ ~halted'
       /\ (mode = "risk" /\ last'.op = "reset_day") =>
            \A pair \in PairSet, side \in Sides :
                ~ClusterCanEnter(cg, pair, side, nbars[pair]).allow =>
                    ~RmCanEnter(halted', equity', start_equity_day', cg', pair, side,
                                nbars'[pair]).ok
       /\ last'.op = "update_equity" => start_equity_day' = start_equity_day
       /\ start_equity_day' # start_equity_day => ResetStep
      ]_vars

\* a reset_day on a halted day while the pair is in cooldown and paused: the
\* halt is gone, the pause is not
C39_Witness ==
    /\ mode = "risk"
    /\ last.op = "reset_day"
    /\ equity < starting_equity * FScale
    /\ \E pair \in DOMAIN cg.last_trade_bar :
          /\ Paused(cg, pair, nbars[pair])
          /\ nbars[pair] - cg.last_trade_bar[pair] <= cooldown_bars
          /\ ~RmCanEnter(halted, equity, start_equity_day, cg, pair, "LONG",
                         nbars[pair]).ok

====
